---- MODULE Spec2Model ----
(***************************************************************************)
(* Model of the message bus broker of android_dbus: the dispatcher of      *)
(* bus/dispatch.c (bus_dispatch, bus_dispatch_matches, send_one_message)   *)
(* driven by the dispatch queue of the main loop (dbus-mainloop.c,         *)
(* _dbus_loop_queue_dispatch and _dbus_loop_dispatch).                     *)
(*                                                                         *)
(* The transaction, the matchmaker, the name registry, the bus driver and  *)
(* the connection object live in files that are not part of the sources    *)
(* at hand; they are modelled from their contracts in the specification.   *)
(***************************************************************************)
EXTENDS Integers, Sequences, FiniteSets, TLC

(* ---------------------------------------------------------------------- *)
(* Bounds                                                                  *)
(* ---------------------------------------------------------------------- *)

\* number of connections accepted by the bus
NConn == 3

\* number of things the clients do in one behaviour (send a message, close
\* the transport)
MaxMsgs == 1

Conns == 1..NConn

(* ---------------------------------------------------------------------- *)
(* Names and protocol strings                                              *)
(* ---------------------------------------------------------------------- *)

\* the C NULL pointer for strings (no destination, no sender, no error)
NULL == "NULL"

DBUS_SERVICE_ORG_FREEDESKTOP_DBUS == "org.freedesktop.DBus"
DBUS_INTERFACE_ORG_FREEDESKTOP_LOCAL == "org.freedesktop.Local"
DBUS_ERROR_NO_MEMORY == "org.freedesktop.DBus.Error.NoMemory"
DBUS_ERROR_SERVICE_DOES_NOT_EXIST == "org.freedesktop.DBus.Error.ServiceDoesNotExist"
DBUS_ERROR_ACCESS_DENIED == "org.freedesktop.DBus.Error.AccessDenied"
DBUS_ERROR_FAILED == "org.freedesktop.DBus.Error.Failed"

DBUS_MESSAGE_TYPE_METHOD_CALL == "method_call"
DBUS_MESSAGE_TYPE_METHOD_RETURN == "method_return"
DBUS_MESSAGE_TYPE_ERROR == "error"
DBUS_MESSAGE_TYPE_SIGNAL == "signal"

DBUS_HANDLER_RESULT_HANDLED == "HANDLED"
DBUS_HANDLER_RESULT_NOT_YET_HANDLED == "NOT_YET_HANDLED"

\* a well-known name that a connection may own, and one that nobody owns
WellKnownName == "com.example.Service"
NonexistentName == "test.nonexistent.xyz"

Digits == <<"1", "2", "3", "4", "5", "6", "7", "8", "9">>

\* the n-th unique name the bus issues, ":1.n"
unique_name(n) == ":1." \o Digits[n]

UniqueNames == {unique_name(n) : n \in 1..NConn}

RegistryNames == UniqueNames \cup {WellKnownName}

(* ---------------------------------------------------------------------- *)
(* Messages                                                                *)
(* ---------------------------------------------------------------------- *)

Message(type, destination, sender, serial, reply_serial, interface, member, error_name, arg) ==
  [type |-> type, destination |-> destination, sender |-> sender,
   serial |-> serial, reply_serial |-> reply_serial,
   interface |-> interface, member |-> member,
   error_name |-> error_name, arg |-> arg]

dbus_message_get_destination(message) == message.destination

dbus_message_get_sender(message) == message.sender

dbus_message_get_type(message) == message.type

dbus_message_is_signal(message, interface, member) ==
  /\ message.type = DBUS_MESSAGE_TYPE_SIGNAL
  /\ message.interface = interface
  /\ message.member = member

\* rewrites the sender header field and nothing else
dbus_message_set_sender(message, sender) == [message EXCEPT !.sender = sender]

\* the synthetic signal the connection queues for itself when it is disconnected
DisconnectedMessage ==
  Message(DBUS_MESSAGE_TYPE_SIGNAL, NULL, NULL, 0, 0,
          DBUS_INTERFACE_ORG_FREEDESKTOP_LOCAL, "Disconnected", NULL, NULL)

\* texts of the match rules a client may add
RuleTexts == {"type='signal'", ""}

\* what a client may put into a message (the serial is assigned on sending)
ClientSenders == {NULL, unique_name(2)}

ClientMessages(serial) ==
  LET DriverCalls ==
        {Message(DBUS_MESSAGE_TYPE_METHOD_CALL, DBUS_SERVICE_ORG_FREEDESKTOP_DBUS, NULL, serial, 0,
                 DBUS_SERVICE_ORG_FREEDESKTOP_DBUS, m[1], NULL, m[2]) :
           m \in {<<"Hello", NULL>>, <<"AddMatch", "type='signal'">>}}
      Undirected ==
        {Message(DBUS_MESSAGE_TYPE_SIGNAL, NULL, s, serial, 0,
                 "com.example.Iface", "Changed", NULL, NULL) : s \in ClientSenders}
        \cup {Message(DBUS_MESSAGE_TYPE_METHOD_CALL, NULL, NULL, serial, 0,
                      DBUS_SERVICE_ORG_FREEDESKTOP_DBUS, m, NULL, NULL) :
                m \in {"Hello", "ListNames"}}
      Directed ==
        {Message(t[1], t[2], t[3], serial, 0, "com.example.Iface", "Frob", NULL, NULL) :
           t \in {<<DBUS_MESSAGE_TYPE_METHOD_CALL, WellKnownName, unique_name(2)>>,
                  <<DBUS_MESSAGE_TYPE_SIGNAL, WellKnownName, NULL>>,
                  <<DBUS_MESSAGE_TYPE_METHOD_CALL, NonexistentName, NULL>>}}
  IN DriverCalls \cup Undirected \cup Directed

(* ---------------------------------------------------------------------- *)
(* State                                                                   *)
(* ---------------------------------------------------------------------- *)

VARIABLES
  connected,      \* connected[c]: dbus_connection_get_is_connected
  active,         \* active[c]: bus_connection_is_active (Hello was handled)
  name,           \* name[c]: bus_connection_get_name, NULL until active
  outgoing,       \* outgoing[c]: the outgoing message queue of c
  incoming,       \* incoming[c]: parsed messages of c waiting for dispatch
  serial,         \* serial[c]: the next serial the client of c assigns
  registry,       \* registry[n]: the connection owning name n, 0 when none
  all_rules,      \* the matchmaker's rules, in the order they were added
  next_id,        \* number of the next unique name
  need_dispatch,  \* the loop's FIFO of connections to dispatch
  cur,            \* the connection _dbus_loop_dispatch is dispatching, 0 when none
  nsent,          \* what the clients have done so far (sends, closes)
  issued,         \* every unique name the bus has issued
  last            \* what the most recent bus_dispatch did

\* the main loop (DBusLoop of dbus-mainloop.c)
VARIABLES
  callbacks,             \* loop->callbacks: watch and timeout callbacks, append order
  callback_list_serial,  \* loop->callback_list_serial
  depth,                 \* loop->depth: number of recursive runs
  next_cb,               \* identity of the next callback that is added
  runs,                  \* our_exit_depth of the calls of _dbus_loop_run in progress, innermost last
  it                     \* what the most recent _dbus_loop_iterate did

loop_vars == <<callbacks, callback_list_serial, depth, next_cb, runs, it>>

\* the memory of the main loop: the DBusLoop with its counters, the Callback
\* objects and the connections with their reference counts, and the calls of
\* the loop that are in progress
VARIABLES
  dbus_loop,  \* the DBusLoop structure
  heap,       \* heap[id]: the Callback objects allocated so far
  conn,       \* conn[c]: reference count and waiting messages of connection c
  frames,     \* the calls of _dbus_loop_run and _dbus_loop_iterate in progress, outermost first
  hist        \* what has become of the entries of the dispatch FIFO, and the last operation

ref_vars == <<dbus_loop, heap, conn, frames, hist>>

\* the marshalling code at work on one data block (DataBlock of
\* dbus-marshal-recursive.c) and one string (dbus-marshal-basic.c)
VARIABLES
  data_block,  \* the DataBlock (byte_order, initial_offset, signature, body), or the buffer that is decoded
  test_nodes,  \* the TestTypeNode values that are written to the block
  n_written,   \* number of writer operations of the nodes that have returned TRUE
  writers,     \* the DBusTypeWriter of every container that is open, outermost first
  wop,         \* what the most recent writer operation did
  outcome      \* what the most recent use of a reader or of the decoder gave

codec_vars == <<data_block, test_nodes, n_written, writers, wop, outcome>>

\* the state of the bus but the loop's dispatch FIFO
bus_vars == <<connected, active, name, outgoing, incoming, serial, registry,
              all_rules, next_id, cur, nsent, issued, last>>

vars == <<connected, active, name, outgoing, incoming, serial, registry,
          all_rules, next_id, need_dispatch, cur, nsent, issued, last,
          callbacks, callback_list_serial, depth, next_cb, runs, it,
          data_block, test_nodes, n_written, writers, wop, outcome,
          dbus_loop, heap, conn, frames, hist>>

(* ---------------------------------------------------------------------- *)
(* Sequences                                                               *)
(* ---------------------------------------------------------------------- *)

InSeq(x, s) == \E i \in 1..Len(s) : s[i] = x

\* the element of a one-element set: The({e : x \in {v}}) is e with the value
\* v for x, v being computed once
The(S) == CHOOSE x \in S : TRUE

RECURSIVE Reverse(_)
Reverse(s) == IF s = <<>> THEN <<>> ELSE Append(Reverse(Tail(s)), Head(s))

RECURSIVE SelectSeqBy(_, _)
\* the entries of s whose connection is c, in order
SelectSeqBy(s, c) ==
  IF s = <<>> THEN <<>>
  ELSE IF Head(s).connection = c
       THEN <<Head(s).message>> \o SelectSeqBy(Tail(s), c)
       ELSE SelectSeqBy(Tail(s), c)

(* ---------------------------------------------------------------------- *)
(* Matchmaker (modelled from its contract)                                 *)
(* ---------------------------------------------------------------------- *)

MatchRule(connection, message_type, sender) ==
  [matches_go_to |-> connection, message_type |-> message_type, sender |-> sender]

\* the rule a rule text stands for
bus_match_rule_parse(connection, text) ==
  IF text = "type='signal'"
  THEN MatchRule(connection, DBUS_MESSAGE_TYPE_SIGNAL, NULL)
  ELSE MatchRule(connection, NULL, NULL)

\* a message matches a rule when every filter the rule specifies equals the
\* corresponding message field
match_rule_matches(rule, message) ==
  /\ rule.message_type = NULL \/ rule.message_type = message.type
  /\ rule.sender = NULL \/ rule.sender = message.sender

RECURSIVE get_recipients_from_list(_, _, _, _)
get_recipients_from_list(rules, addressed_recipient, message, recipients) ==
  IF rules = <<>> THEN recipients
  ELSE LET rule == Head(rules)
           take == /\ match_rule_matches(rule, message)
                   /\ rule.matches_go_to # addressed_recipient
                   /\ ~InSeq(rule.matches_go_to, recipients)
       IN get_recipients_from_list(Tail(rules), addressed_recipient, message,
                                   IF take THEN Append(recipients, rule.matches_go_to)
                                   ELSE recipients)

\* the connections holding a rule the message satisfies, the addressed
\* recipient excluded, each once, in the order their rules were added
bus_matchmaker_get_recipients(rules, addressed_recipient, message) ==
  get_recipients_from_list(rules, addressed_recipient, message, <<>>)

(* ---------------------------------------------------------------------- *)
(* Transaction (modelled from its contract)                                *)
(* ---------------------------------------------------------------------- *)

\* a transaction is the list of its planned sends, in the order added
bus_transaction_new == <<>>

bus_transaction_send(transaction, connection, message) ==
  Append(transaction, [connection |-> connection, message |-> message])

\* dbus_connection_send_preallocated that puts the message at the head of
\* the queue
dbus_connection_send_preallocated_at_head(out, connection, message) ==
  [queues |-> [out.queues EXCEPT ![connection] = <<message>> \o @],
   log |-> Append(out.log, [connection |-> connection, message |-> message])]

\* the connection's outgoing queue gets the message; the log keeps the order
\* in which the queues were written
dbus_connection_send_preallocated(out, connection, message) ==
  [queues |-> [out.queues EXCEPT ![connection] = Append(@, message)],
   log |-> Append(out.log, [connection |-> connection, message |-> message])]

RECURSIVE bus_transaction_execute_and_free(_, _)
\* commit: every planned send is appended to its connection's outgoing
\* queue, in the order the sends were added
bus_transaction_execute_and_free(transaction, out) ==
  IF transaction = <<>> THEN out
  ELSE bus_transaction_execute_and_free(
         Tail(transaction),
         dbus_connection_send_preallocated(out, Head(transaction).connection,
                                           Head(transaction).message))

\* rollback: the plan is discarded, no outgoing queue is touched
bus_transaction_cancel_and_free(transaction, out) == out

(* ---------------------------------------------------------------------- *)
(* Allocation failures and the security policy                             *)
(* ---------------------------------------------------------------------- *)

\* the allocation of one dispatch that fails: a pair <<function, index>>;
\* <<"none", 0>> when every allocation succeeds
FailPoints ==
  {<<"none", 0>>, <<"bus_transaction_new", 0>>, <<"dbus_message_set_sender", 0>>,
   <<"bus_transaction_send", 0>>, <<"bus_matchmaker_get_recipients", 0>>,
   <<"bus_transaction_send_error_reply", 0>>}
  \cup {<<"send_one_message", i>> : i \in 1..NConn}
  \cup {<<"bus_driver_handle_message", 0>>}

\* the verdicts of bus_context_check_security_policy during one dispatch:
\* the proposed recipients it refuses, 0 standing for the bus driver; the
\* policy lets every recipient through or refuses one of them
PolicyVerdicts == {{}} \cup {{r} : r \in Conns \cup {0}}

bus_context_check_security_policy(denied, proposed_recipient) ==
  proposed_recipient \notin denied

(* ---------------------------------------------------------------------- *)
(* Replies of the bus and the bus driver (modelled from their contracts)   *)
(* ---------------------------------------------------------------------- *)

\* an error reply to in_reply_to: sent by the driver, reply-serial the serial
\* of the message it answers
ErrorReply(error_name, in_reply_to) ==
  Message(DBUS_MESSAGE_TYPE_ERROR, in_reply_to.sender, DBUS_SERVICE_ORG_FREEDESKTOP_DBUS,
          0, in_reply_to.serial, NULL, NULL, error_name, NULL)

MethodReturn(in_reply_to, arg) ==
  Message(DBUS_MESSAGE_TYPE_METHOD_RETURN, in_reply_to.sender,
          DBUS_SERVICE_ORG_FREEDESKTOP_DBUS, 0, in_reply_to.serial, NULL, NULL, NULL, arg)

DriverSignal(destination, member, arg) ==
  Message(DBUS_MESSAGE_TYPE_SIGNAL, destination, DBUS_SERVICE_ORG_FREEDESKTOP_DBUS,
          0, 0, DBUS_SERVICE_ORG_FREEDESKTOP_DBUS, member, NULL, arg)

\* the preallocated NoMemory error of the connection, sent at once and
\* outside any transaction
bus_connection_send_oom_error(out, connection, in_reply_to) ==
  dbus_connection_send_preallocated(out, connection,
                                    ErrorReply(DBUS_ERROR_NO_MEMORY, in_reply_to))

bus_transaction_send_error_reply(transaction, connection, error, in_reply_to) ==
  bus_transaction_send(transaction, connection, ErrorReply(error, in_reply_to))

(* ---------------------------------------------------------------------- *)
(* bus/dispatch.c                                                          *)
(* ---------------------------------------------------------------------- *)

\* send_one_message that reports the refusal of the policy as an error
send_one_message_reports_refusal(connection, message, transaction, denied, oom) ==
  IF ~bus_context_check_security_policy(denied, connection)
  THEN [ok |-> FALSE, error |-> DBUS_ERROR_ACCESS_DENIED, transaction |-> transaction,
        refused |-> TRUE]
  ELSE IF oom
       THEN [ok |-> FALSE, error |-> DBUS_ERROR_NO_MEMORY, transaction |-> transaction,
             refused |-> FALSE]
       ELSE [ok |-> TRUE, error |-> NULL,
             transaction |-> bus_transaction_send(transaction, connection, message),
             refused |-> FALSE]

\* refused: the policy refused this recipient, nothing is sent and nothing
\* is reported
send_one_message(connection, message, transaction, denied, oom) ==
  IF ~bus_context_check_security_policy(denied, connection)
  THEN [ok |-> TRUE, error |-> NULL, transaction |-> transaction, refused |-> TRUE]
  ELSE IF oom
       THEN [ok |-> FALSE, error |-> DBUS_ERROR_NO_MEMORY, transaction |-> transaction,
             refused |-> FALSE]
       ELSE [ok |-> TRUE, error |-> NULL,
             transaction |-> bus_transaction_send(transaction, connection, message),
             refused |-> FALSE]

\* dispatch_matches_loop that leaves the loop after the first recipient
dispatch_matches_loop_first_only(recipients, i, message, transaction, refused, denied, fail) ==
  IF i > Len(recipients) \/ i > 1
  THEN [error |-> NULL, transaction |-> transaction, refused |-> refused]
  ELSE LET r == send_one_message(recipients[i], message, transaction, denied,
                                 fail = <<"send_one_message", i>>)
       IN [error |-> r.error, transaction |-> r.transaction,
           refused |-> IF r.refused THEN refused \cup {recipients[i]} ELSE refused]

RECURSIVE dispatch_matches_loop(_, _, _, _, _, _, _)
\* the while loop of bus_dispatch_matches, link at position i of recipients
dispatch_matches_loop(recipients, i, message, transaction, refused, denied, fail) ==
  IF i > Len(recipients)
  THEN [error |-> NULL, transaction |-> transaction, refused |-> refused]
  ELSE LET r == send_one_message(recipients[i], message, transaction, denied,
                                 fail = <<"send_one_message", i>>)
       IN IF ~r.ok
          THEN [error |-> r.error, transaction |-> r.transaction,
                refused |-> IF r.refused THEN refused \cup {recipients[i]} ELSE refused]
          ELSE dispatch_matches_loop(recipients, i + 1, message, r.transaction,
                                     IF r.refused THEN refused \cup {recipients[i]}
                                     ELSE refused,
                                     denied, fail)

\* bus_dispatch_matches that walks the list of recipients from its last link
bus_dispatch_matches_backwards(rules, transaction, addressed_recipient, message, denied, fail) ==
  IF fail = <<"bus_matchmaker_get_recipients", 0>>
  THEN [ok |-> FALSE, error |-> DBUS_ERROR_NO_MEMORY, transaction |-> transaction,
        recipients |-> <<>>, refused |-> {}]
  ELSE LET recipients == bus_matchmaker_get_recipients(rules, addressed_recipient, message)
           r == dispatch_matches_loop(Reverse(recipients), 1, message, transaction, {},
                                      denied, fail)
       IN [ok |-> r.error = NULL, error |-> r.error, transaction |-> r.transaction,
           recipients |-> recipients, refused |-> r.refused]

bus_dispatch_matches(rules, transaction, addressed_recipient, message, denied, fail) ==
  IF fail = <<"bus_matchmaker_get_recipients", 0>>
  THEN [ok |-> FALSE, error |-> DBUS_ERROR_NO_MEMORY, transaction |-> transaction,
        recipients |-> <<>>, refused |-> {}]
  ELSE LET recipients == bus_matchmaker_get_recipients(rules, addressed_recipient, message)
           r == dispatch_matches_loop(recipients, 1, message, transaction, {}, denied, fail)
       IN [ok |-> r.error = NULL, error |-> r.error, transaction |-> r.transaction,
           recipients |-> recipients, refused |-> r.refused]

(* ---------------------------------------------------------------------- *)
(* Bus driver (modelled from its contract)                                 *)
(* ---------------------------------------------------------------------- *)

DriverFailure(error, transaction, message, rules, disconnect) ==
  [ok |-> FALSE, error |-> error, transaction |-> transaction, message |-> message,
   disconnect |-> disconnect, new_name |-> NULL, rules |-> rules, refused |-> {}]

\* Hello: a fresh unique name, the connection becomes active, the name is the
\* sole argument of the reply, ServiceCreated goes to the connections whose
\* rules match it and NameAcquired to the caller.  The handler stamps the
\* message with the new name: bus_dispatch_matches asserts that the message
\* it is given has a sender.
bus_driver_handle_hello(connection, transaction, message, rules, denied, fail) ==
  IF active[connection]
  THEN DriverFailure(DBUS_ERROR_FAILED, transaction, message, rules, FALSE)
  ELSE IF fail[1] = "bus_driver_handle_message"
  THEN DriverFailure(DBUS_ERROR_NO_MEMORY, transaction, message, rules, FALSE)
  ELSE LET unique == unique_name(next_id)
           stamped == dbus_message_set_sender(message, unique)
           welcome == bus_transaction_send(transaction, connection,
                                           MethodReturn(stamped, unique))
           created == bus_dispatch_matches(rules, welcome, 0,
                                           DriverSignal(NULL, "ServiceCreated", unique),
                                           denied, fail)
       IN IF ~created.ok
          THEN DriverFailure(created.error, created.transaction, message, rules, FALSE)
          ELSE [ok |-> TRUE, error |-> NULL,
                transaction |-> bus_transaction_send(
                                  created.transaction, connection,
                                  DriverSignal(unique, "NameAcquired", unique)),
                message |-> stamped, disconnect |-> FALSE, new_name |-> unique,
                rules |-> rules, refused |-> created.refused]

\* AddMatch: the rule is appended to the matchmaker's list, the reply is empty
bus_driver_handle_add_match(connection, transaction, message, rules, fail) ==
  IF fail[1] = "bus_driver_handle_message"
  THEN DriverFailure(DBUS_ERROR_NO_MEMORY, transaction, message, rules, FALSE)
  ELSE [ok |-> TRUE, error |-> NULL,
        transaction |-> bus_transaction_send(transaction, connection,
                                             MethodReturn(message, NULL)),
        message |-> message, disconnect |-> FALSE, new_name |-> NULL,
        rules |-> Append(rules, bus_match_rule_parse(connection, message.arg)),
        refused |-> {}]

\* a connection that is not active may only say Hello: anything else
\* disconnects it
bus_driver_handle_message(connection, transaction, message, rules, denied, fail) ==
  IF message.member # "Hello" /\ ~active[connection]
  THEN DriverFailure(DBUS_ERROR_ACCESS_DENIED, transaction, message, rules, TRUE)
  ELSE IF message.member = "Hello"
  THEN bus_driver_handle_hello(connection, transaction, message, rules, denied, fail)
  ELSE IF message.member = "AddMatch"
  THEN bus_driver_handle_add_match(connection, transaction, message, rules, fail)
  ELSE IF fail[1] = "bus_driver_handle_message"
  THEN DriverFailure(DBUS_ERROR_NO_MEMORY, transaction, message, rules, FALSE)
  ELSE [ok |-> TRUE, error |-> NULL,
        transaction |-> bus_transaction_send(transaction, connection,
                                             MethodReturn(message, "names")),
        message |-> message, disconnect |-> FALSE, new_name |-> NULL, rules |-> rules,
        refused |-> {}]

\* the owner of a name, 0 when the name has none
bus_registry_lookup(service_name) ==
  IF service_name \in DOMAIN registry THEN registry[service_name] ELSE 0

(* ---------------------------------------------------------------------- *)
(* bus_dispatch                                                            *)
(* ---------------------------------------------------------------------- *)

\* assign_sender without the call of dbus_message_set_sender
assign_sender_unstamped(connection, message) == message

\* an active connection's message gets the connection's own name as sender
assign_sender(connection, message) ==
  IF active[connection]
  THEN dbus_message_set_sender(message, name[connection])
  ELSE message

\* is_to_bus_driver comparing with the wrong name
is_to_bus_driver_never(service_name) ==
  service_name # NULL /\ service_name = DBUS_INTERFACE_ORG_FREEDESKTOP_LOCAL

\* the message is for the bus driver
is_to_bus_driver(service_name) ==
  service_name # NULL /\ service_name = DBUS_SERVICE_ORG_FREEDESKTOP_DBUS

\* must_talk_to_driver_first with the test of the wrong sign
must_talk_to_driver_first_inverted(connection) == active[connection] /\ ~connected[connection]

\* clients must talk to the bus driver first
must_talk_to_driver_first(connection) == ~active[connection]

\* error_branch that takes out of memory for the case "not connected": no
\* error is sent and the transaction is not cancelled
error_branch_no_cancel(error, is_connected) ==
  IF error = NULL THEN "none"
  ELSE IF ~is_connected \/ error = DBUS_ERROR_NO_MEMORY THEN "drop"
  ELSE "reply"

\* error_branch without the case of out of memory: the NoMemory error goes
\* through the transaction like any other error
error_branch_oom_as_reply(error, is_connected) ==
  IF error = NULL THEN "none"
  ELSE IF ~is_connected THEN "drop"
  ELSE "reply"

\* error_branch that answers every error with the preallocated NoMemory error
error_branch_always_oom(error, is_connected) ==
  IF error = NULL THEN "none"
  ELSE IF ~is_connected THEN "drop"
  ELSE "oom"

\* what the code after the label out does about the error
error_branch(error, is_connected) ==
  IF error = NULL THEN "none"
  ELSE IF ~is_connected THEN "drop"
  ELSE IF error = DBUS_ERROR_NO_MEMORY THEN "oom"
  ELSE "reply"

\* where bus_dispatch stands when it reaches its label out: a handled message
\* with a transaction, no error and nothing planned, to be amended
Routed(message) ==
  [result |-> DBUS_HANDLER_RESULT_HANDLED, error |-> NULL, has_transaction |-> TRUE,
   transaction |-> bus_transaction_new, message |-> message, disconnect |-> FALSE,
   disconnected |-> FALSE, addressed_recipient |-> 0, recipients |-> <<>>,
   new_name |-> NULL, rules |-> all_rules, refused |-> {}, policy_rejected |-> FALSE]

\* RouteMatches that does not tell bus_dispatch_matches who the addressed
\* recipient is
RouteMatches_no_addressed(rules, transaction, addressed_recipient, message, new_name, refused, denied, fail) ==
  LET m == bus_dispatch_matches(rules, transaction, 0, message, denied, fail)
  IN [Routed(message) EXCEPT !.error = m.error, !.transaction = m.transaction,
                             !.addressed_recipient = addressed_recipient,
                             !.recipients = m.recipients, !.new_name = new_name,
                             !.rules = rules, !.refused = refused \cup m.refused]

\* the call of bus_dispatch_matches that ends the routing
RouteMatches(rules, transaction, addressed_recipient, message, new_name, refused, denied, fail) ==
  LET m == bus_dispatch_matches(rules, transaction, addressed_recipient, message,
                                denied, fail)
  IN [Routed(message) EXCEPT !.error = m.error, !.transaction = m.transaction,
                             !.addressed_recipient = addressed_recipient,
                             !.recipients = m.recipients, !.new_name = new_name,
                             !.rules = rules, !.refused = refused \cup m.refused]

\* route_to_named_service that asks the policy after the send to the
\* addressed recipient was added to the transaction
route_to_named_service_policy_late(service_name, message, denied, fail) ==
  LET addressed_recipient == bus_registry_lookup(service_name)
  IN IF addressed_recipient = 0
     THEN [Routed(message) EXCEPT !.error = DBUS_ERROR_SERVICE_DOES_NOT_EXIST]
     ELSE IF fail = <<"bus_transaction_send", 0>>
     THEN [Routed(message) EXCEPT !.error = DBUS_ERROR_NO_MEMORY,
                                  !.addressed_recipient = addressed_recipient]
     ELSE IF ~bus_context_check_security_policy(denied, addressed_recipient)
     THEN [Routed(message) EXCEPT !.error = DBUS_ERROR_ACCESS_DENIED,
                                  !.transaction = bus_transaction_send(
                                     bus_transaction_new, addressed_recipient, message),
                                  !.addressed_recipient = addressed_recipient,
                                  !.refused = {addressed_recipient},
                                  !.policy_rejected = TRUE]
     ELSE RouteMatches(all_rules,
                       bus_transaction_send(bus_transaction_new, addressed_recipient,
                                            message),
                       addressed_recipient, message, NULL, {}, denied, fail)

\* the branch "route to named service"
route_to_named_service(service_name, message, denied, fail) ==
  LET addressed_recipient == bus_registry_lookup(service_name)
  IN IF addressed_recipient = 0
     THEN [Routed(message) EXCEPT !.error = DBUS_ERROR_SERVICE_DOES_NOT_EXIST]
     ELSE IF ~bus_context_check_security_policy(denied, addressed_recipient)
     THEN [Routed(message) EXCEPT !.error = DBUS_ERROR_ACCESS_DENIED,
                                  !.addressed_recipient = addressed_recipient,
                                  !.refused = {addressed_recipient},
                                  !.policy_rejected = TRUE]
     ELSE IF fail = <<"bus_transaction_send", 0>>
     THEN [Routed(message) EXCEPT !.error = DBUS_ERROR_NO_MEMORY,
                                  !.addressed_recipient = addressed_recipient]
     ELSE RouteMatches(all_rules,
                       bus_transaction_send(bus_transaction_new, addressed_recipient,
                                            message),
                       addressed_recipient, message, NULL, {}, denied, fail)

\* the branch "to bus driver"
route_to_bus_driver(connection, message, denied, fail) ==
  IF ~bus_context_check_security_policy(denied, 0)
  THEN [Routed(message) EXCEPT !.error = DBUS_ERROR_ACCESS_DENIED, !.refused = {0},
                               !.policy_rejected = TRUE]
  ELSE LET d == bus_driver_handle_message(connection, bus_transaction_new, message,
                                          all_rules, denied, fail)
       IN IF ~d.ok
          THEN [Routed(d.message) EXCEPT !.error = d.error,
                                         !.transaction = d.transaction,
                                         !.disconnect = d.disconnect]
          ELSE RouteMatches(d.rules, d.transaction, 0, d.message, d.new_name,
                            d.refused, denied, fail)

\* the dispatch that goes on with a message that has no destination and is
\* no signal
bus_dispatch_route_peer_messages_routed(connection, message, fail, denied) ==
  LET service_name0 == dbus_message_get_destination(message)
  IN
  IF service_name0 = NULL
     /\ dbus_message_is_signal(message, DBUS_INTERFACE_ORG_FREEDESKTOP_LOCAL, "Disconnected")
  THEN [Routed(message) EXCEPT !.has_transaction = FALSE, !.disconnected = TRUE]
  ELSE IF fail = <<"bus_transaction_new", 0>>
  THEN [Routed(message) EXCEPT !.has_transaction = FALSE,
                               !.error = DBUS_ERROR_NO_MEMORY]
  ELSE IF active[connection] /\ fail = <<"dbus_message_set_sender", 0>>
  THEN [Routed(message) EXCEPT !.error = DBUS_ERROR_NO_MEMORY]
  ELSE
    LET stamped == assign_sender(connection, message)
        \* the destination is fetched again once the sender is set
        service_name == IF active[connection]
                        THEN dbus_message_get_destination(stamped)
                        ELSE service_name0
    IN
    IF is_to_bus_driver(service_name)
    THEN route_to_bus_driver(connection, stamped, denied, fail)
    ELSE IF must_talk_to_driver_first(connection)
    THEN [Routed(stamped) EXCEPT !.disconnect = TRUE]
    ELSE IF service_name # NULL
    THEN route_to_named_service(service_name, stamped, denied, fail)
    ELSE RouteMatches(all_rules, bus_transaction_new, 0, stamped, NULL, {}, denied, fail)

\* bus_dispatch from its entry to the label out
bus_dispatch_route(connection, message, fail, denied) ==
  LET service_name0 == dbus_message_get_destination(message)
  IN
  IF service_name0 = NULL
     /\ dbus_message_is_signal(message, DBUS_INTERFACE_ORG_FREEDESKTOP_LOCAL, "Disconnected")
  THEN [Routed(message) EXCEPT !.has_transaction = FALSE, !.disconnected = TRUE]
  ELSE IF service_name0 = NULL
          /\ dbus_message_get_type(message) # DBUS_MESSAGE_TYPE_SIGNAL
  THEN [Routed(message) EXCEPT !.has_transaction = FALSE,
                               !.result = DBUS_HANDLER_RESULT_NOT_YET_HANDLED]
  ELSE IF fail = <<"bus_transaction_new", 0>>
  THEN [Routed(message) EXCEPT !.has_transaction = FALSE,
                               !.error = DBUS_ERROR_NO_MEMORY]
  ELSE IF active[connection] /\ fail = <<"dbus_message_set_sender", 0>>
  THEN [Routed(message) EXCEPT !.error = DBUS_ERROR_NO_MEMORY]
  ELSE
    LET stamped == assign_sender(connection, message)
        \* the destination is fetched again once the sender is set
        service_name == IF active[connection]
                        THEN dbus_message_get_destination(stamped)
                        ELSE service_name0
    IN
    IF is_to_bus_driver(service_name)
    THEN route_to_bus_driver(connection, stamped, denied, fail)
    ELSE IF must_talk_to_driver_first(connection)
    THEN [Routed(stamped) EXCEPT !.disconnect = TRUE]
    ELSE IF service_name # NULL
    THEN route_to_named_service(service_name, stamped, denied, fail)
    ELSE RouteMatches(all_rules, bus_transaction_new, 0, stamped, NULL, {}, denied, fail)

\* bus_dispatch from the label out to its return, r being where the routing
\* stopped: what is done about the error, then the commit of the transaction
\* that is left
bus_dispatch_out(connection, r, fail) ==
  LET is_connected == connected[connection] /\ ~r.disconnect
      branch == error_branch(r.error, is_connected)
      reply_failed == branch = "reply"
                      /\ fail = <<"bus_transaction_send_error_reply", 0>>
      send_oom == branch = "oom" \/ reply_failed
      transaction == IF branch = "reply" /\ ~reply_failed
                     THEN bus_transaction_send_error_reply(r.transaction, connection,
                                                           r.error, r.message)
                     ELSE r.transaction
      \* transaction != NULL at the end of the function
      execute == r.has_transaction /\ ~send_oom
      out0 == [queues |-> outgoing, log |-> <<>>]
      out1 == IF send_oom
              THEN bus_connection_send_oom_error(out0, connection, r.message)
              ELSE out0
      out2 == IF execute
              THEN bus_transaction_execute_and_free(transaction, out1)
              ELSE bus_transaction_cancel_and_free(transaction, out1)
  IN [result |-> r.result, error |-> r.error, message |-> r.message,
      has_transaction |-> r.has_transaction,
      planned |-> r.transaction,
      cancelled |-> r.has_transaction /\ send_oom,
      alloc_failed |-> r.error = DBUS_ERROR_NO_MEMORY \/ reply_failed,
      refused |-> r.refused, policy_rejected |-> r.policy_rejected,
      disconnect |-> r.disconnect, disconnected |-> r.disconnected,
      addressed_recipient |-> r.addressed_recipient, recipients |-> r.recipients,
      \* the driver's changes stay when the dispatch ends without error
      new_name |-> IF r.error # NULL THEN NULL ELSE r.new_name,
      rules |-> IF r.error # NULL THEN all_rules ELSE r.rules,
      log |-> out2.log,
      out |-> out2.queues]

bus_dispatch(connection, message, fail, denied) ==
  CHOOSE d \in {bus_dispatch_out(connection, r, fail) :
                  r \in {bus_dispatch_route(connection, message, fail, denied)}} : TRUE

(* ---------------------------------------------------------------------- *)
(* Connection (modelled from its contract)                                 *)
(* ---------------------------------------------------------------------- *)

\* the rules of the list that do not belong to connection
RECURSIVE bus_matchmaker_disconnected(_, _)
bus_matchmaker_disconnected(rules, connection) ==
  IF rules = <<>> THEN <<>>
  ELSE IF Head(rules).matches_go_to = connection
       THEN bus_matchmaker_disconnected(Tail(rules), connection)
       ELSE <<Head(rules)>> \o bus_matchmaker_disconnected(Tail(rules), connection)

\* what dbus_connection_disconnect leaves in the incoming queue: dispatch of
\* what was pending is cancelled, the Disconnected signal is what remains
dbus_connection_disconnect(queue) == <<DisconnectedMessage>>

(* ---------------------------------------------------------------------- *)
(* Initial states                                                          *)
(* ---------------------------------------------------------------------- *)

\* The bus has accepted NConn connections; the first k of them have said
\* Hello, in this order, the last of them owns the well-known name, and
\* they have added match rules; everything the bus had queued has been
\* written out.
InitRules(k) ==
  {[i \in 1..k |-> MatchRule(i, DBUS_MESSAGE_TYPE_SIGNAL, NULL)],
   [i \in 1..k |-> MatchRule(k + 1 - i, DBUS_MESSAGE_TYPE_SIGNAL, NULL)]
     \o [i \in 1..k |-> MatchRule(k + 1 - i, NULL, NULL)]}

\* the loop as _dbus_loop_new returns it: dbus_new0 zeroes every field
_dbus_loop_new ==
  /\ callbacks = <<>>
  /\ callback_list_serial = 0
  /\ depth = 0
  /\ next_cb = 1
  /\ runs = <<>>
  /\ it = [kind |-> "none"]

\* no data block is being written or read
NoBlock ==
  /\ data_block = [kind |-> "none"]
  /\ test_nodes = <<>>
  /\ n_written = 0
  /\ writers = <<>>
  /\ wop = [op |-> "none"]
  /\ outcome = [kind |-> "none"]

\* the memory of the loop is not followed
NoReferences ==
  /\ dbus_loop = [refcount |-> 1]
  /\ heap = <<>>
  /\ conn = <<>>
  /\ frames = <<>>
  /\ hist = [op |-> "none"]

InitBus(k, rules) ==
  /\ connected = [c \in Conns |-> TRUE]
  /\ active = [c \in Conns |-> c <= k]
  /\ name = [c \in Conns |-> IF c <= k THEN unique_name(c) ELSE NULL]
  /\ outgoing = [c \in Conns |-> <<>>]
  /\ incoming = [c \in Conns |-> <<>>]
  /\ serial = [c \in Conns |-> 1]
  /\ registry = [n \in RegistryNames |->
                   IF n = WellKnownName THEN k
                   ELSE IF \E c \in 1..k : n = unique_name(c)
                        THEN CHOOSE c \in 1..k : n = unique_name(c)
                        ELSE 0]
  /\ all_rules = rules
  /\ next_id = k + 1
  /\ need_dispatch = <<>>
  /\ cur = 0
  /\ nsent = 0
  /\ issued = {unique_name(c) : c \in 1..k}
  /\ last = [kind |-> "none"]
  /\ _dbus_loop_new

InitWith(k, rules) == InitBus(k, rules) /\ NoBlock /\ NoReferences

Init == \E k \in 0..NConn : \E rules \in InitRules(k) : InitWith(k, rules)

(* ---------------------------------------------------------------------- *)
(* Actions                                                                 *)
(* ---------------------------------------------------------------------- *)

\* dbus-mainloop.c: the connection is appended to the FIFO, duplicates allowed
_dbus_loop_queue_dispatch(queue, connection) == Append(queue, connection)

\* A client sends a message: the bus reads and parses it, the connection has
\* a message to dispatch and is queued with the loop.
Send(c, message, max) ==
  /\ cur = 0
  /\ connected[c]
  /\ nsent < max
  /\ incoming' = [incoming EXCEPT ![c] = Append(@, message)]
  /\ serial' = [serial EXCEPT ![c] = @ + 1]
  /\ need_dispatch' = _dbus_loop_queue_dispatch(need_dispatch, c)
  /\ nsent' = nsent + 1
  /\ UNCHANGED <<connected, active, name, outgoing, registry, all_rules, next_id,
                 cur, issued, last>>
  /\ UNCHANGED <<loop_vars, codec_vars, ref_vars>>

ClientSend(c, message) == Send(c, message, MaxMsgs)

\* The peer closes the transport.
TransportDisconnect(c) ==
  /\ cur = 0
  /\ connected[c]
  /\ nsent < MaxMsgs
  /\ nsent' = nsent + 1
  /\ connected' = [connected EXCEPT ![c] = FALSE]
  /\ incoming' = [incoming EXCEPT ![c] = dbus_connection_disconnect(@)]
  /\ need_dispatch' = _dbus_loop_queue_dispatch(need_dispatch, c)
  /\ UNCHANGED <<active, name, outgoing, serial, registry, all_rules, next_id,
                 cur, issued, last>>
  /\ UNCHANGED <<loop_vars, codec_vars, ref_vars>>

\* _dbus_loop_dispatch takes the first connection of the FIFO
LoopTake ==
  /\ cur = 0
  /\ need_dispatch # <<>>
  /\ cur' = Head(need_dispatch)
  /\ need_dispatch' = Tail(need_dispatch)
  /\ UNCHANGED <<connected, active, name, outgoing, incoming, serial, registry,
                 all_rules, next_id, nsent, issued, last>>
  /\ UNCHANGED <<loop_vars, codec_vars, ref_vars>>

\* dbus_connection_dispatch found nothing left: DBUS_DISPATCH_COMPLETE
LoopComplete ==
  /\ cur # 0
  /\ incoming[cur] = <<>>
  /\ cur' = 0
  /\ UNCHANGED <<connected, active, name, outgoing, incoming, serial, registry,
                 all_rules, next_id, need_dispatch, nsent, issued, last>>
  /\ UNCHANGED <<loop_vars, codec_vars, ref_vars>>

\* bus_connection_disconnected: the connection leaves the bus
bus_connection_disconnected(c) ==
  /\ active' = [active EXCEPT ![c] = FALSE]
  /\ name' = [name EXCEPT ![c] = NULL]
  /\ registry' = [n \in DOMAIN registry |-> IF registry[n] = c THEN 0 ELSE registry[n]]
  /\ all_rules' = bus_matchmaker_disconnected(all_rules, c)
  /\ UNCHANGED <<next_id, issued>>

\* bus_connection_preallocate_oom_error: the connection keeps the NoMemory
\* error it has, or allocates one; FALSE when that allocation fails
bus_connection_preallocate_oom_error(has_oom_message, oom) ==
  [ok |-> has_oom_message \/ ~oom, oom_message |-> has_oom_message \/ ~oom]

\* the entry of bus_dispatch with a single attempt: no wait, no retry
preallocate_oom_error_loop_single_attempt(has_oom_message, failing) ==
  [oom_message |-> bus_connection_preallocate_oom_error(has_oom_message, failing > 0).oom_message,
   waits |-> 0]

\* the entry of bus_dispatch: bus_connection_preallocate_oom_error is tried,
\* with _dbus_wait_for_memory between two attempts, until it succeeds; the
\* first failing allocations of the NoMemory error fail
RECURSIVE preallocate_oom_error_loop(_, _)
preallocate_oom_error_loop(has_oom_message, failing) ==
  The({IF p.ok
       THEN [oom_message |-> p.oom_message, waits |-> 0]
       ELSE The({[e EXCEPT !.waits = @ + 1] :
                   e \in {preallocate_oom_error_loop(p.oom_message, failing - 1)}}) :
         p \in {bus_connection_preallocate_oom_error(has_oom_message, failing > 0)}})

\* dbus_connection_dispatch pops the first incoming message of the connection
\* the loop is at and hands it to the filter, bus_dispatch, which makes sure
\* of the connection's NoMemory error before anything else
dbus_connection_dispatch_entered(c, fail, denied, had_oom_message, failing) ==
  /\ cur = c
  /\ incoming[c] # <<>>
  /\ \E d \in {bus_dispatch(c, Head(incoming[c]), fail, denied)} :
        /\ last' = [kind |-> "dispatch", connection |-> c,
                    received |-> Head(incoming[c]),
                    pre |-> outgoing, was_active |-> active[c], was_name |-> name[c],
                    pre_rules |-> all_rules, pre_issued |-> issued,
                    entry |-> preallocate_oom_error_loop(had_oom_message, failing),
                    d |-> [f \in DOMAIN d \ {"out", "rules"} |-> d[f]]]
        /\ incoming' = [incoming EXCEPT ![c] = IF d.disconnect
                                               THEN dbus_connection_disconnect(Tail(@))
                                               ELSE Tail(@)]
        /\ connected' = [connected EXCEPT ![c] = @ /\ ~d.disconnect]
        /\ IF d.disconnected
           THEN /\ bus_connection_disconnected(c)
                /\ outgoing' = [d.out EXCEPT ![c] = <<>>]
           ELSE /\ outgoing' = d.out
                /\ all_rules' = d.rules
                /\ IF d.new_name # NULL
                   THEN /\ active' = [active EXCEPT ![c] = TRUE]
                        /\ name' = [name EXCEPT ![c] = d.new_name]
                        /\ registry' = [registry EXCEPT ![d.new_name] = c]
                        /\ next_id' = next_id + 1
                        /\ issued' = issued \cup {d.new_name}
                   ELSE UNCHANGED <<active, name, registry, next_id, issued>>
  /\ UNCHANGED <<serial, need_dispatch, cur, nsent>>
  /\ UNCHANGED <<loop_vars, codec_vars, ref_vars>>

\* the dispatch of a connection that has its NoMemory error, memory being
\* there
dbus_connection_dispatch(c, fail, denied) ==
  dbus_connection_dispatch_entered(c, fail, denied, TRUE, 0)

\* the connections whose clients send or close: the first, active whenever a
\* connection is, and the last, which has said Hello only when all have
Clients == {1, NConn}

Next ==
  \/ \E c \in Clients : \E message \in ClientMessages(serial[c]) : ClientSend(c, message)
  \/ \E c \in Clients : TransportDisconnect(c)
  \/ LoopTake
  \/ LoopComplete
  \/ \E c \in Conns : \E fail \in FailPoints : \E denied \in PolicyVerdicts :
       dbus_connection_dispatch(c, fail, denied)

Spec == Init /\ [][Next]_vars

(* ---------------------------------------------------------------------- *)
(* Properties                                                              *)
(* ---------------------------------------------------------------------- *)

\* the most recent dispatch routed a message (it was not the handling of the
\* connection's own Disconnected signal)
Dispatched == last.kind = "dispatch" /\ ~last.d.disconnected

\* the outgoing queue of c is what it was before the most recent dispatch,
\* with something appended
Extended(c) ==
  /\ Len(outgoing[c]) >= Len(last.pre[c])
  /\ SubSeq(outgoing[c], 1, Len(last.pre[c])) = last.pre[c]

\* what the most recent dispatch appended to the outgoing queue of c
Appended(c) == SubSeq(outgoing[c], Len(last.pre[c]) + 1, Len(outgoing[c]))

\* number of entries of s equal to x
Count(s, x) == Cardinality({i \in 1..Len(s) : s[i] = x})

\* number of sends of the dispatched message to c in a transaction
PlannedCopies(transaction, c) ==
  Cardinality({i \in 1..Len(transaction) :
                 /\ transaction[i].connection = c
                 /\ transaction[i].message = last.d.message})

\* C1: a dispatch that ends with an error set appends nothing to the outgoing
\* queue of any connection but the sender; a dispatch that ends without
\* error appends, to every connection a send of the message was planned for,
\* exactly one copy of the message, and no copy to the others.
C1_TransactionalAtomicity ==
  Dispatched =>
    /\ last.d.error # NULL =>
         \A c \in Conns \ {last.connection} : outgoing[c] = last.pre[c]
    /\ last.d.error = NULL =>
         \A c \in Conns :
           /\ Extended(c)
           /\ Count(Appended(c), last.d.message) =
                (IF PlannedCopies(last.d.planned, c) > 0 THEN 1 ELSE 0)

\* a dispatch without error that planned the message for two connections
C1_Witness ==
  /\ Dispatched
  /\ last.d.error = NULL
  /\ \E c1, c2 \in Conns :
       /\ c1 # c2
       /\ PlannedCopies(last.d.planned, c1) = 1
       /\ PlannedCopies(last.d.planned, c2) = 1
       /\ Count(Appended(c1), last.d.message) = 1
       /\ Count(Appended(c2), last.d.message) = 1

\* C2: when an allocation of the dispatch fails, whatever number of sends was
\* planned by then, the transaction (if one was created) is cancelled, no
\* connection but the sender has its outgoing queue changed, and the sender,
\* if connected, gets exactly one message: the NoMemory error in reply to
\* the message.
C2_OomRollsBack ==
  (Dispatched /\ last.d.alloc_failed) =>
    /\ last.d.has_transaction => last.d.cancelled
    /\ \A c \in Conns \ {last.connection} : outgoing[c] = last.pre[c]
    /\ connected[last.connection] =>
         /\ Extended(last.connection)
         /\ Len(Appended(last.connection)) = 1
         /\ Appended(last.connection)[1].type = DBUS_MESSAGE_TYPE_ERROR
         /\ Appended(last.connection)[1].error_name = DBUS_ERROR_NO_MEMORY
         /\ Appended(last.connection)[1].reply_serial = last.received.serial

\* out of memory on a later send of a signal, one send at least being planned
C2_Witness ==
  /\ Dispatched
  /\ last.d.alloc_failed
  /\ last.received.type = DBUS_MESSAGE_TYPE_SIGNAL
  /\ Len(last.d.planned) >= 1
  /\ Len(last.d.recipients) > Len(last.d.planned)
  /\ Len(Appended(last.connection)) = 1
  /\ Appended(last.connection)[1].error_name = DBUS_ERROR_NO_MEMORY

\* C3: every message a dispatch queues on behalf of an active connection
\* (every message it appends that does not come from the bus driver) is the
\* received message with the connection's own unique name as sender,
\* whatever sender the client had put; the addressed recipient is the owner
\* of the destination the stamped message has.
C3_SenderStamped ==
  (Dispatched /\ last.was_active) =>
    /\ \A c \in Conns :
         /\ Extended(c)
         /\ \A i \in 1..Len(Appended(c)) :
              Appended(c)[i].sender # DBUS_SERVICE_ORG_FREEDESKTOP_DBUS =>
                /\ last.was_name \in UniqueNames
                /\ Appended(c)[i] = [last.received EXCEPT !.sender = last.was_name]
    /\ last.d.addressed_recipient # 0 =>
         /\ dbus_message_get_sender(last.d.message) = last.was_name
         /\ last.d.addressed_recipient
              = bus_registry_lookup(dbus_message_get_destination(last.d.message))

\* a client that put another connection's name into its message, the message
\* being queued to its addressed recipient under the client's own name
C3_Witness ==
  /\ Dispatched
  /\ last.was_active
  /\ last.received.sender \in UniqueNames
  /\ last.received.sender # last.was_name
  /\ last.d.addressed_recipient # 0
  /\ \E i \in 1..Len(Appended(last.d.addressed_recipient)) :
       Appended(last.d.addressed_recipient)[i]
         = [last.received EXCEPT !.sender = last.was_name]

\* an active connection has sent a method call to a name nobody owns
C4_Case ==
  /\ Dispatched
  /\ last.was_active
  /\ last.received.type = DBUS_MESSAGE_TYPE_METHOD_CALL
  /\ last.received.destination \notin {NULL, DBUS_SERVICE_ORG_FREEDESKTOP_DBUS}
  /\ bus_registry_lookup(last.received.destination) = 0

\* the sender got exactly one message, an error of that name from the driver
\* in reply to the call, and no connection got the call
C4_SingleErrorReply(error_name) ==
  /\ Extended(last.connection)
  /\ Len(Appended(last.connection)) = 1
  /\ Appended(last.connection)[1].type = DBUS_MESSAGE_TYPE_ERROR
  /\ Appended(last.connection)[1].error_name = error_name
  /\ Appended(last.connection)[1].reply_serial = last.received.serial
  /\ Appended(last.connection)[1].sender = DBUS_SERVICE_ORG_FREEDESKTOP_DBUS
  /\ \A c \in Conns \ {last.connection} : outgoing[c] = last.pre[c]
  /\ last.d.planned = <<>>

\* C4 as stated: the single reply is always ServiceDoesNotExist.
C4_Original == C4_Case => C4_SingleErrorReply(DBUS_ERROR_SERVICE_DOES_NOT_EXIST)

\* C4: a method call of an active connection to a name without owner is
\* answered by exactly one error from the driver, with the call's serial as
\* reply-serial: ServiceDoesNotExist, or NoMemory when an allocation of the
\* dispatch failed; the call is queued to no connection.
C4_NonexistentService ==
  C4_Case =>
    C4_SingleErrorReply(IF last.d.alloc_failed THEN DBUS_ERROR_NO_MEMORY
                        ELSE DBUS_ERROR_SERVICE_DOES_NOT_EXIST)

C4_Witness ==
  /\ C4_Case
  /\ ~last.d.alloc_failed
  /\ Appended(last.connection) # <<>>
  /\ Appended(last.connection)[1].error_name = DBUS_ERROR_SERVICE_DOES_NOT_EXIST

\* a connection that is not active has sent something else than Hello
C5_Case ==
  /\ Dispatched
  /\ ~last.was_active
  /\ last.received.member # "Hello"

\* the connection was disconnected, nothing was queued to it or to any other
\* connection and the matchmaker was not run
C5_DisconnectedSilently ==
  /\ ~connected[last.connection]
  /\ \A c \in Conns : outgoing[c] = last.pre[c]
  /\ last.d.recipients = <<>>
  /\ last.d.log = <<>>

\* C5 as stated: whatever the message is.
C5_Original == C5_Case => C5_DisconnectedSilently

\* C5: a connection that is not active and sends a message other than Hello
\* that has a destination or is a signal is disconnected, gets no reply and
\* the message goes to no connection, provided the transaction could be
\* allocated and the policy did not reject a message addressed to the driver.
C5_ProtocolViolation ==
  (/\ C5_Case
   /\ last.received.destination # NULL \/ last.received.type = DBUS_MESSAGE_TYPE_SIGNAL
   /\ ~last.d.alloc_failed
   /\ ~last.d.policy_rejected)
  => C5_DisconnectedSilently

\* AddMatch to the driver before Hello
C5_Witness ==
  /\ C5_Case
  /\ last.received.destination = DBUS_SERVICE_ORG_FREEDESKTOP_DBUS
  /\ last.received.member = "AddMatch"
  /\ ~last.d.alloc_failed
  /\ ~last.d.policy_rejected
  /\ ~connected[last.connection]

\* a connection that is not active has sent the method call Hello
C6_Case ==
  /\ Dispatched
  /\ ~last.was_active
  /\ last.received.type = DBUS_MESSAGE_TYPE_METHOD_CALL
  /\ last.received.member = "Hello"

\* the caller got a method return whose argument is a unique name never
\* issued before, then NameAcquired with the same name, and nothing else
C6_Welcomed ==
  /\ Extended(last.connection)
  /\ Len(Appended(last.connection)) = 2
  /\ Appended(last.connection)[1].type = DBUS_MESSAGE_TYPE_METHOD_RETURN
  /\ Appended(last.connection)[1].reply_serial = last.received.serial
  /\ Appended(last.connection)[1].arg \in UniqueNames \ last.pre_issued
  /\ Appended(last.connection)[2].type = DBUS_MESSAGE_TYPE_SIGNAL
  /\ Appended(last.connection)[2].member = "NameAcquired"
  /\ Appended(last.connection)[2].arg = Appended(last.connection)[1].arg

HoldsSignalRule(rules, c) ==
  \E i \in 1..Len(rules) :
    rules[i] = MatchRule(c, DBUS_MESSAGE_TYPE_SIGNAL, NULL)

\* every connection is active and holds the rule type='signal', and one of
\* them has emitted a signal with no destination
C7_Case ==
  /\ Dispatched
  /\ last.received.type = DBUS_MESSAGE_TYPE_SIGNAL
  /\ last.received.destination = NULL
  /\ \A c \in Conns : HoldsSignalRule(last.pre_rules, c)

MatchingRules(rules, c) ==
  {i \in 1..Len(rules) : /\ rules[i].matches_go_to = c
                         /\ match_rule_matches(rules[i], last.d.message)}

\* C8: one dispatch queues at most one copy of the message to any single
\* connection, also when several rules of the connection match and when the
\* connection is both the addressed recipient and a match-rule recipient.
C8_AtMostOneCopy ==
  Dispatched =>
    \A c \in Conns :
      /\ Extended(c)
      /\ Count(Appended(c), last.d.message) <= 1
      /\ PlannedCopies(last.d.planned, c) <= 1

\* the addressed recipient holds two rules that match the message and has
\* got one copy
C8_Witness ==
  /\ Dispatched
  /\ last.d.addressed_recipient # 0
  /\ Cardinality(MatchingRules(last.pre_rules, last.d.addressed_recipient)) >= 2
  /\ Count(Appended(last.d.addressed_recipient), last.d.message) = 1
  /\ \E c \in Conns \ {last.d.addressed_recipient} :
       /\ Cardinality(MatchingRules(last.pre_rules, c)) >= 2
       /\ Count(Appended(c), last.d.message) = 1

\* the connections the copies of the dispatched message were appended to, in
\* the order the outgoing queues were written
RECURSIVE CopyOrder(_)
CopyOrder(log) ==
  IF log = <<>> THEN <<>>
  ELSE IF Head(log).message = last.d.message
       THEN <<Head(log).connection>> \o CopyOrder(Tail(log))
       ELSE CopyOrder(Tail(log))

RECURSIVE Without(_, _)
\* the sequence s without its entries in the set x
Without(s, x) ==
  IF s = <<>> THEN <<>>
  ELSE IF Head(s) \in x THEN Without(Tail(s), x)
       ELSE <<Head(s)>> \o Without(Tail(s), x)

\* position of the first rule of c that the dispatched message satisfies
FirstMatchingRule(rules, c) ==
  CHOOSE i \in MatchingRules(rules, c) : \A j \in MatchingRules(rules, c) : i <= j

\* C9: the copies of one dispatched message are appended in the order of the
\* transaction: the addressed recipient first, then the match-rule recipients
\* in the order the matchmaker returned them, which is the order in which
\* their first matching rules were registered.
C9_InsertionOrder ==
  (Dispatched /\ last.d.error = NULL) =>
    /\ CopyOrder(last.d.log)
         = (IF last.d.addressed_recipient # 0
            THEN <<last.d.addressed_recipient>> ELSE <<>>)
           \o Without(last.d.recipients, last.d.refused)
    /\ \A c \in Conns : Appended(c) = SelectSeqBy(last.d.log, c)
    /\ \A i, j \in 1..Len(last.d.recipients) :
         i < j => FirstMatchingRule(all_rules, last.d.recipients[i])
                    < FirstMatchingRule(all_rules, last.d.recipients[j])

\* an addressed recipient and two match-rule recipients whose registration
\* order is not the order of their connection numbers
C9_Witness ==
  /\ Dispatched
  /\ last.d.error = NULL
  /\ last.d.addressed_recipient # 0
  /\ Len(CopyOrder(last.d.log)) >= 3
  /\ \E i, j \in 1..Len(last.d.recipients) :
       i < j /\ last.d.recipients[i] > last.d.recipients[j]

\* the security policy has rejected the message for the bus driver or for
\* the addressed recipient
C11_Case == Dispatched /\ last.d.policy_rejected

\* the sender got exactly one message, an error of that name from the driver
\* in reply to the message, and no other connection got anything
C11_OneError(error_name) ==
  /\ Extended(last.connection)
  /\ Len(Appended(last.connection)) = 1
  /\ Appended(last.connection)[1].type = DBUS_MESSAGE_TYPE_ERROR
  /\ Appended(last.connection)[1].error_name = error_name
  /\ Appended(last.connection)[1].reply_serial = last.received.serial
  /\ \A c \in Conns \ {last.connection} : outgoing[c] = last.pre[c]

\* C11 as stated: the transaction is cancelled and the sender gets the
\* policy's error.
C11_Original ==
  C11_Case => last.d.cancelled /\ C11_OneError(DBUS_ERROR_ACCESS_DENIED)

\* C11: when the security policy rejects a message sent to the driver or to
\* a named recipient, no send of the message has been planned and nothing is
\* queued to the addressed recipient or to a match-rule recipient; the
\* sender gets exactly one error reply: the policy's error, added to the
\* transaction, which is executed and not cancelled, or, when adding that
\* reply fails for lack of memory, the preallocated NoMemory error with the
\* transaction cancelled.
C11_PolicyRejection ==
  C11_Case =>
    /\ last.d.planned = <<>>
    /\ last.d.recipients = <<>>
    /\ IF last.d.alloc_failed
       THEN last.d.cancelled /\ C11_OneError(DBUS_ERROR_NO_MEMORY)
       ELSE /\ ~last.d.cancelled
            /\ C11_OneError(DBUS_ERROR_ACCESS_DENIED)
            /\ last.d.log = <<[connection |-> last.connection,
                               message |-> Appended(last.connection)[1]]>>

\* a message to a named recipient that holds a matching rule is rejected
C11_Witness ==
  /\ C11_Case
  /\ ~last.d.alloc_failed
  /\ last.d.addressed_recipient \in Conns \ {last.connection}
  /\ \E c \in Conns \ {last.d.addressed_recipient} :
       MatchingRules(last.pre_rules, c) # {}
  /\ C11_OneError(DBUS_ERROR_ACCESS_DENIED)

\* the policy has refused a recipient in the dispatch
C12_Case == Dispatched /\ last.d.refused # {}

\* no error about the refusal is queued to the sender
C12_NothingToSender ==
  \A i \in 1..Len(Appended(last.connection)) :
    Appended(last.connection)[i].error_name # DBUS_ERROR_ACCESS_DENIED

\* C12 as stated: no denial queues anything to the sender.
C12_Original == C12_Case => C12_NothingToSender

\* C12: a policy denial for a match-rule recipient is a silent drop: the
\* recipient gets no copy, the dispatch goes on without error and nothing is
\* queued to the sender because of the denial; a denial for the addressed
\* recipient or the bus driver is reported to the sender by an error reply
\* (the policy's error, or NoMemory when the reply cannot be allocated).
C12_SilentDrop ==
  C12_Case =>
    IF last.d.policy_rejected
    THEN /\ Len(Appended(last.connection)) = 1
         /\ Appended(last.connection)[1].type = DBUS_MESSAGE_TYPE_ERROR
         /\ last.d.alloc_failed \/ ~C12_NothingToSender
    ELSE /\ C12_NothingToSender
         /\ \A r \in (last.d.refused \cap Conns) \ {last.connection} :
              outgoing[r] = last.pre[r]
         /\ last.connection \in last.d.refused =>
              Count(Appended(last.connection), last.d.message) = 0
         /\ ~last.d.alloc_failed => last.d.error = NULL

\* a match-rule recipient is refused while another one gets its copy
C12_Witness ==
  /\ C12_Case
  /\ ~last.d.policy_rejected
  /\ ~last.d.alloc_failed
  /\ \E r \in last.d.refused : InSeq(r, last.d.recipients)
  /\ \E c \in Conns \ last.d.refused : Count(Appended(c), last.d.message) = 1
  /\ C12_NothingToSender

(* ---------------------------------------------------------------------- *)
(* Order of delivery across messages                                       *)
(* ---------------------------------------------------------------------- *)

\* number of messages the clients send in one behaviour of SpecOrder
MaxOrderMsgs == 3

\* the connections that send in SpecOrder
OrderSenders == {1, 2}

\* what they send: a signal every connection has a rule for, and a call that
\* is answered with an error
OrderMessages(n) ==
  {Message(DBUS_MESSAGE_TYPE_SIGNAL, NULL, NULL, n, 0,
           "com.example.Iface", "Changed", NULL, NULL),
   Message(DBUS_MESSAGE_TYPE_METHOD_CALL, NonexistentName, NULL, n, 0,
           "com.example.Iface", "Frob", NULL, NULL)}

\* every connection is active and holds the rule type='signal'
InitOrder ==
  InitWith(NConn, [i \in 1..NConn |-> MatchRule(i, DBUS_MESSAGE_TYPE_SIGNAL, NULL)])

\* the verdicts of the policy in SpecOrder: every recipient is let through,
\* or the last connection is refused
OrderVerdicts == {{}, {NConn}}

ClientSendOrder(c, message) == Send(c, message, MaxOrderMsgs)

NextOrder ==
  \/ \E c \in OrderSenders : \E message \in OrderMessages(serial[c]) :
       ClientSendOrder(c, message)
  \/ LoopTake
  \/ LoopComplete
  \/ \E c \in Conns : \E fail \in FailPoints : \E denied \in OrderVerdicts :
       dbus_connection_dispatch(c, fail, denied)

SpecOrder == InitOrder /\ [][NextOrder]_vars

\* C10: of two messages of the same sender in the outgoing queue of one
\* recipient, the one sent first (the smaller serial) comes first, whatever
\* messages of other senders, NoMemory errors after a rollback or error
\* replies are queued around them.
C10_SenderOrder ==
  \A r \in Conns :
    \A i, j \in 1..Len(outgoing[r]) :
      (/\ i < j
       /\ outgoing[r][i].sender # DBUS_SERVICE_ORG_FREEDESKTOP_DBUS
       /\ outgoing[r][i].sender = outgoing[r][j].sender)
      => outgoing[r][i].serial < outgoing[r][j].serial

\* two messages of one sender in the queue of another connection, with an
\* error from the bus between them
C10_Witness ==
  \E r \in Conns :
    \E i, k, l \in 1..Len(outgoing[r]) :
      /\ i < k /\ k < l
      /\ outgoing[r][i].sender \in UniqueNames \ {name[r]}
      /\ outgoing[r][l].sender = outgoing[r][i].sender
      /\ outgoing[r][k].type = DBUS_MESSAGE_TYPE_ERROR

(* ---------------------------------------------------------------------- *)
(* dbus-mainloop.c: callbacks                                              *)
(* ---------------------------------------------------------------------- *)

CALLBACK_WATCH == "CALLBACK_WATCH"
CALLBACK_TIMEOUT == "CALLBACK_TIMEOUT"

\* the largest int
_DBUS_INT_MAX == 2147483647

\* a WatchCallback with its DBusWatch: watch_callback_new clears
\* last_iteration_oom
watch_callback_new(id, enabled) ==
  [type |-> CALLBACK_WATCH, id |-> id, enabled |-> enabled,
   last_iteration_oom |-> FALSE, interval |-> 0, last_tv_sec |-> 0, last_tv_usec |-> 0]

\* a TimeoutCallback with its DBusTimeout: timeout_callback_new stores the
\* current time as the time of the last call
timeout_callback_new(id, enabled, interval, tv_sec, tv_usec) ==
  [type |-> CALLBACK_TIMEOUT, id |-> id, enabled |-> enabled,
   last_iteration_oom |-> FALSE, interval |-> interval,
   last_tv_sec |-> tv_sec, last_tv_usec |-> tv_usec]

\* loop->watch_count and loop->timeout_count: add_callback and
\* remove_callback keep them equal to the number of callbacks of the type
CountType(list, type) == Cardinality({i \in 1..Len(list) : list[i].type = type})
watch_count(list) == CountType(list, CALLBACK_WATCH)
timeout_count(list) == CountType(list, CALLBACK_TIMEOUT)

\* add_callback that puts the callback at the head of the list
add_callback_at_head(loop, cb) ==
  [loop EXCEPT !.callbacks = <<cb>> \o @,
               !.callback_list_serial = @ + 1]

\* add_callback: the callback goes to the end of the list and the serial of
\* the list grows by one
add_callback(loop, cb) ==
  [loop EXCEPT !.callbacks = Append(@, cb),
               !.callback_list_serial = @ + 1]

\* position of the callback with that identity, 0 when it is not in the list
FindCallback(list, id) ==
  IF \E i \in 1..Len(list) : list[i].id = id
  THEN CHOOSE i \in 1..Len(list) : list[i].id = id
  ELSE 0

\* remove_callback: the link leaves the list and the serial grows by one
remove_callback(loop, link) ==
  [loop EXCEPT !.callbacks = SubSeq(@, 1, link - 1) \o SubSeq(@, link + 1, Len(@)),
               !.callback_list_serial = @ + 1]

\* _dbus_loop_remove_watch and _dbus_loop_remove_timeout: the first callback
\* that matches is removed; a warning and no change when there is none
_dbus_loop_remove(loop, id) ==
  IF FindCallback(loop.callbacks, id) = 0 THEN loop
  ELSE remove_callback(loop, FindCallback(loop.callbacks, id))

(* ---------------------------------------------------------------------- *)
(* dbus-mainloop.c: check_timeout                                          *)
(* ---------------------------------------------------------------------- *)

\* widths of unsigned long the code is built for
ULongBits == {32, 64}

\* (a - b) / 1000 as the code computes it for the microsecond parts, both
\* unsigned long, the quotient stored in a long and then limited to
\* _DBUS_INT_MAX: the difference wraps when a < b.  With 32 bits it is
\* 4294967296 - (b - a), with 64 bits the quotient is above _DBUS_INT_MAX.
usec_difference_msec(a, b, ulong_bits) ==
  IF a >= b THEN (a - b) \div 1000
  ELSE IF ulong_bits = 32 THEN 4294967 + ((296 - (b - a)) \div 1000)
  ELSE _DBUS_INT_MAX

\* check_timeout: fired is the value returned, timeout what is stored in
\* *timeout, tcb the callback with the last_tv fields the function leaves
check_timeout(tv_sec, tv_usec, tcb, ulong_bits) ==
  LET interval == tcb.interval
      interval_seconds == interval \div 1000
      interval_milliseconds == interval - interval_seconds * 1000
      usec_sum == tcb.last_tv_usec + interval_milliseconds * 1000
      expiration_tv_usec == IF usec_sum >= 1000000 THEN usec_sum - 1000000 ELSE usec_sum
      expiration_tv_sec == tcb.last_tv_sec + interval_seconds
                           + (IF usec_sum >= 1000000 THEN 1 ELSE 0)
  IN IF \/ expiration_tv_sec < tv_sec
        \/ (expiration_tv_sec = tv_sec /\ expiration_tv_usec < tv_usec)
     THEN [fired |-> FALSE, timeout |-> interval,
           tcb |-> [tcb EXCEPT !.last_tv_sec = tv_sec, !.last_tv_usec = tv_usec]]
     ELSE LET sec_remaining == expiration_tv_sec - tv_sec
              msec_remaining ==
                usec_difference_msec(expiration_tv_usec, tv_usec, ulong_bits)
              \* msec_remaining is never negative here, and sec_remaining
              \* is not added to it
              result == IF sec_remaining < 0 \/ (sec_remaining = 0 /\ msec_remaining < 0)
                        THEN 0
                        ELSE IF msec_remaining > _DBUS_INT_MAX THEN _DBUS_INT_MAX
                        ELSE msec_remaining
          IN [fired |-> result = 0, timeout |-> result, tcb |-> tcb]

(* ---------------------------------------------------------------------- *)
(* dbus-mainloop.c: _dbus_loop_iterate                                     *)
(* ---------------------------------------------------------------------- *)

MIN(a, b) == IF a < b THEN a ELSE b

\* the value of the DBusLoop structure in the current state
ThisLoop ==
  [callbacks |-> callbacks, callback_list_serial |-> callback_list_serial,
   depth |-> depth, need_dispatch |-> need_dispatch, next_cb |-> next_cb]

\* the interval of the timeouts the callbacks add
AddedInterval == 1000

\* What the functions of the callbacks do when the loop calls them in one
\* iteration: the watch functions of the watches in oom return FALSE (out of
\* memory), and the function of callback who does one more thing.
\*   add_watch, add_timeout: _dbus_loop_add_watch, _dbus_loop_add_timeout
\*   remove: it removes its own callback
\*   quit: _dbus_loop_quit
\*   queue: _dbus_loop_queue_dispatch of a connection
\*   run: _dbus_loop_run; the function comes back when the nested run
\*     returns, which it does at the depth the loop had when it was called
\*     (line 815), after iterations that each end by draining the FIFO; the
\*     callbacks the nested iterations call leave the list as it is
Effects == {"add_watch", "add_timeout", "remove", "quit", "queue", "run"}

Script(oom, who, effect) == [oom |-> oom, who |-> who, effect |-> effect]

\* the loop after the function of callback cb has run
CallbackEffect(loop, cb, script, tv_sec, tv_usec) ==
  IF script.who # cb.id THEN loop
  ELSE IF script.effect = "add_watch"
  THEN [add_callback(loop, watch_callback_new(loop.next_cb, TRUE))
          EXCEPT !.next_cb = @ + 1]
  ELSE IF script.effect = "add_timeout"
  THEN [add_callback(loop, timeout_callback_new(loop.next_cb, TRUE, AddedInterval,
                                                tv_sec, tv_usec))
          EXCEPT !.next_cb = @ + 1]
  ELSE IF script.effect = "remove"
  THEN _dbus_loop_remove(loop, cb.id)
  ELSE IF script.effect = "quit"
  THEN [loop EXCEPT !.depth = @ - 1]
  ELSE IF script.effect = "queue"
  THEN [loop EXCEPT !.need_dispatch = _dbus_loop_queue_dispatch(@, 1)]
  ELSE \* run
       [loop EXCEPT !.need_dispatch = <<>>]

\* what the function of callback cb does beyond its work
Did(cb, script) == IF script.who = cb.id THEN script.effect ELSE "none"

\* an entry of the record of calls of an iteration: the function called, what
\* it did, and the serial of the list and the depth it left
Event(kind, id, did, loop) ==
  [kind |-> kind, id |-> id, did |-> did, serial |-> loop.callback_list_serial,
   depth |-> loop.depth]

RECURSIVE FillPollSet_keeps_flag(_, _, _)
\* FillPollSet that leaves last_iteration_oom set on the watch it skips
FillPollSet_keeps_flag(list, i, acc) ==
  IF i > Len(list) THEN acc
  ELSE IF list[i].type = CALLBACK_WATCH /\ list[i].last_iteration_oom
  THEN FillPollSet_keeps_flag(list, i + 1,
                              [acc EXCEPT !.skipped = Append(@, list[i].id),
                                          !.oom_watch_pending = TRUE,
                                          !.retval = TRUE])
  ELSE IF list[i].type = CALLBACK_WATCH /\ list[i].enabled
  THEN FillPollSet_keeps_flag(list, i + 1, [acc EXCEPT !.fds = Append(@, list[i].id)])
  ELSE FillPollSet_keeps_flag(list, i + 1, acc)

RECURSIVE FillPollSet(_, _, _)
\* lines 546-607: the watches that go to poll (fds), those left out because
\* their function was out of memory the last time (skipped), their flag
\* being cleared
FillPollSet(list, i, acc) ==
  IF i > Len(list) THEN acc
  ELSE IF list[i].type = CALLBACK_WATCH /\ list[i].last_iteration_oom
  THEN FillPollSet(list, i + 1,
                   [acc EXCEPT !.callbacks[i].last_iteration_oom = FALSE,
                               !.skipped = Append(@, list[i].id),
                               !.oom_watch_pending = TRUE,
                               !.retval = TRUE])
  ELSE IF list[i].type = CALLBACK_WATCH /\ list[i].enabled
  THEN FillPollSet(list, i + 1, [acc EXCEPT !.fds = Append(@, list[i].id)])
  ELSE FillPollSet(list, i + 1, acc)

RECURSIVE ScanTimeouts(_, _, _, _, _, _)
\* lines 617-643: the smallest *timeout of check_timeout over the enabled
\* timeouts, the scan ending at the first 0
ScanTimeouts(list, i, tv_sec, tv_usec, timeout, ulong_bits) ==
  IF i > Len(list) THEN [callbacks |-> list, timeout |-> timeout]
  ELSE IF list[i].type = CALLBACK_TIMEOUT /\ list[i].enabled
  THEN LET r == check_timeout(tv_sec, tv_usec, list[i], ulong_bits)
           t == IF timeout < 0 THEN r.timeout ELSE MIN(r.timeout, timeout)
           checked == [list EXCEPT ![i] = r.tcb]
       IN IF t = 0 THEN [callbacks |-> checked, timeout |-> t]
          ELSE ScanTimeouts(checked, i + 1, tv_sec, tv_usec, t, ulong_bits)
  ELSE ScanTimeouts(list, i + 1, tv_sec, tv_usec, timeout, ulong_bits)

\* lines 609-659: the timeout handed to _dbus_poll, -1 for no limit
PollTimeout(list, queue, block, oom_watch_pending, oom_wait, tv_sec, tv_usec, ulong_bits) ==
  LET scan == IF timeout_count(list) > 0
              THEN ScanTimeouts(list, 1, tv_sec, tv_usec, -1, ulong_bits)
              ELSE [callbacks |-> list, timeout |-> -1]
      clamped == IF ~block \/ queue # <<>> THEN 0 ELSE scan.timeout
  IN [callbacks |-> scan.callbacks,
      timeout |-> IF oom_watch_pending THEN MIN(clamped, oom_wait) ELSE clamped]

\* MustRestart that looks at the list only
MustRestart_serial_only(st, initial_serial, orig_depth) ==
  st.loop.callback_list_serial # initial_serial

\* the list or the depth is not what it was when the callbacks began
MustRestart(st, initial_serial, orig_depth) ==
  \/ st.loop.callback_list_serial # initial_serial
  \/ st.loop.depth # orig_depth

RECURSIVE FireTimeouts(_, _, _, _, _, _, _, _, _)
\* lines 677-714: the enabled timeouts check_timeout reports are stamped
\* with the time and called, in list order, unless the list or the depth
\* has changed
FireTimeouts(st, i, n, initial_serial, orig_depth, tv_sec, tv_usec, ulong_bits, script) ==
  IF i > n THEN st
  ELSE IF MustRestart(st, initial_serial, orig_depth) THEN [st EXCEPT !.restart = TRUE]
  ELSE LET cb == st.loop.callbacks[i]
       IN IF cb.type = CALLBACK_TIMEOUT /\ cb.enabled
          THEN LET r == check_timeout(tv_sec, tv_usec, cb, ulong_bits)
               IN IF r.fired
                  THEN LET stamped == [st.loop EXCEPT
                                         !.callbacks[i].last_tv_sec = tv_sec,
                                         !.callbacks[i].last_tv_usec = tv_usec]
                           called == CallbackEffect(stamped, cb, script, tv_sec, tv_usec)
                       IN FireTimeouts(
                            [st EXCEPT !.loop = called,
                                       !.trace = Append(@, Event("timeout", cb.id, Did(cb, script), called)),
                                       !.retval = TRUE],
                            i + 1, n, initial_serial, orig_depth, tv_sec, tv_usec,
                            ulong_bits, script)
                  ELSE FireTimeouts([st EXCEPT !.loop.callbacks[i] = r.tcb],
                                    i + 1, n, initial_serial, orig_depth, tv_sec,
                                    tv_usec, ulong_bits, script)
          ELSE FireTimeouts(st, i + 1, n, initial_serial, orig_depth, tv_sec, tv_usec,
                            ulong_bits, script)

\* the loop with last_iteration_oom set in the watch callback, which may
\* have left the list
SetOom(loop, id) ==
  IF FindCallback(loop.callbacks, id) = 0 THEN loop
  ELSE [loop EXCEPT !.callbacks[FindCallback(loop.callbacks, id)].last_iteration_oom = TRUE]

\* the watch is in the list and enabled
WatchEnabled(loop, id) ==
  /\ FindCallback(loop.callbacks, id) # 0
  /\ loop.callbacks[FindCallback(loop.callbacks, id)].enabled

RECURSIVE FireWatches(_, _, _, _, _, _, _, _, _)
\* lines 719-771: the functions of the ready, enabled watches are called in
\* the order of fds, unless the list or the depth has changed; a function
\* that returns FALSE leaves last_iteration_oom set
FireWatches(st, i, fds, ready, initial_serial, orig_depth, tv_sec, tv_usec, script) ==
  IF i > Len(fds) THEN st
  ELSE IF MustRestart(st, initial_serial, orig_depth) THEN [st EXCEPT !.restart = TRUE]
  ELSE IF fds[i] \in ready /\ WatchEnabled(st.loop, fds[i])
  THEN LET wcb == st.loop.callbacks[FindCallback(st.loop.callbacks, fds[i])]
           called == CallbackEffect(st.loop, wcb, script, tv_sec, tv_usec)
       IN FireWatches(
            [st EXCEPT !.loop = IF fds[i] \in script.oom THEN SetOom(called, fds[i])
                                ELSE called,
                       !.trace = Append(@, Event("watch", fds[i], Did(wcb, script), called)),
                       !.retval = TRUE],
            i + 1, fds, ready, initial_serial, orig_depth, tv_sec, tv_usec, script)
  ELSE FireWatches(st, i + 1, fds, ready, initial_serial, orig_depth, tv_sec, tv_usec,
                   script)

\* What the message handlers do while the last connection of the FIFO is
\* dispatched (dbus_connection_dispatch is called for it until no message
\* is left): nothing, _dbus_loop_quit by the handler of one message,
\* _dbus_loop_quit by the handlers of two messages, or _dbus_loop_run (the
\* nested run then iterates before this iteration goes on).
Handlers == {"none", "quit", "quit_twice", "run"}

\* _dbus_loop_dispatch at the end of the iteration: the connections of the
\* FIFO are dispatched in order until the FIFO is empty
DrainDispatch(st, handler) ==
  LET queue == st.loop.need_dispatch
      drained == [st.loop EXCEPT !.need_dispatch = <<>>]
      handled == IF queue = <<>> \/ handler = "none" THEN drained
                 ELSE IF handler = "quit" THEN [drained EXCEPT !.depth = @ - 1]
                 ELSE IF handler = "quit_twice" THEN [drained EXCEPT !.depth = @ - 2]
                 ELSE [drained EXCEPT !.depth = @ + 1]
  IN [st EXCEPT !.loop = handled,
                !.trace = @ \o [i \in 1..Len(queue) |->
                                  IF i = Len(queue)
                                  THEN Event("dispatch", queue[i], handler, handled)
                                  ELSE Event("dispatch", queue[i], "none", drained)],
                !.retval = @ \/ queue # <<>>,
                !.run_entered = queue # <<>> /\ handler = "run"]

\* the values _dbus_get_oom_wait returns: 0 when the code is built with
\* DBUS_BUILD_TESTS, 500 otherwise
OomWaitTests == 0
OomWaitDefault == 500
_dbus_get_oom_wait == {OomWaitTests, OomWaitDefault}

\* _dbus_loop_iterate: tv1 is the time read before the poll, tv2 the time
\* read after it, ready the watches poll reports events for
IterateFrom(loop, block, oom_wait, tv1, tv2, ready, script, handler, ulong_bits) ==
  LET st0 == [loop |-> loop, trace |-> <<>>, retval |-> FALSE, restart |-> FALSE,
              run_entered |-> FALSE]
      none == [fds |-> <<>>, skipped |-> <<>>, timeout |-> -1, polled |-> FALSE,
               oom_watch_pending |-> FALSE]
  IN IF loop.callbacks = <<>>
     THEN [st |-> DrainDispatch(st0, handler), poll |-> none]
     ELSE
       LET fill == FillPollSet(loop.callbacks, 1,
                               [callbacks |-> loop.callbacks, fds |-> <<>>,
                                skipped |-> <<>>, oom_watch_pending |-> FALSE,
                                retval |-> FALSE])
           pt == PollTimeout(fill.callbacks, loop.need_dispatch, block,
                             fill.oom_watch_pending, oom_wait, tv1[1], tv1[2], ulong_bits)
           n_ready == Cardinality(ready \cap {fill.fds[i] : i \in 1..Len(fill.fds)})
           initial_serial == loop.callback_list_serial
           orig_depth == loop.depth
           st1 == [st0 EXCEPT !.loop.callbacks = pt.callbacks, !.retval = fill.retval]
           st2 == IF timeout_count(st1.loop.callbacks) > 0
                  THEN FireTimeouts(st1, 1, Len(st1.loop.callbacks), initial_serial,
                                    orig_depth, tv2[1], tv2[2], ulong_bits, script)
                  ELSE st1
           st3 == IF n_ready > 0 /\ ~st2.restart
                  THEN FireWatches(st2, 1, fill.fds, ready, initial_serial, orig_depth,
                                   tv2[1], tv2[2], script)
                  ELSE st2
       IN [st |-> DrainDispatch(st3, handler),
           poll |-> [fds |-> fill.fds, skipped |-> fill.skipped, timeout |-> pt.timeout,
                     polled |-> TRUE, oom_watch_pending |-> fill.oom_watch_pending]]

\* the watches of a recorded iteration whose function was called and returned
\* FALSE for want of memory
Reported(i) ==
  {i.trace[k].id : k \in {j \in 1..Len(i.trace) : i.trace[j].kind = "watch"}} \cap i.oom

\* the innermost run, if any, goes on: its depth is not yet the one it
\* waits for
RunGoesOn == IF runs = <<>> THEN TRUE ELSE depth # runs[Len(runs)]

\* an iteration: called by the innermost _dbus_loop_run (block is TRUE), or
\* by the program itself when no run is in progress
_dbus_loop_iterate(block, oom_wait, tv1, tv2, ready, script, handler, ulong_bits) ==
  /\ RunGoesOn
  /\ runs # <<>> => block
  /\ script.oom \subseteq ready
  /\ script.who # 0 => \E i \in 1..Len(callbacks) : callbacks[i].id = script.who
  /\ script.who = 0 => script.effect = "quit"
  /\ \E r \in {IterateFrom(ThisLoop, block, oom_wait, tv1, tv2, ready, script,
                           handler, ulong_bits)} :
       \* _dbus_loop_quit asserts depth > 0
       /\ \A i \in 1..Len(r.st.trace) : r.st.trace[i].depth >= 0
       \* the handlers act when a connection is dispatched
       /\ handler # "none" => \E i \in 1..Len(r.st.trace) : r.st.trace[i].kind = "dispatch"
       /\ callbacks' = r.st.loop.callbacks
       /\ callback_list_serial' = r.st.loop.callback_list_serial
       /\ next_cb' = r.st.loop.next_cb
       /\ need_dispatch' = r.st.loop.need_dispatch
       /\ IF r.st.run_entered
          THEN depth' = r.st.loop.depth /\ runs' = Append(runs, r.st.loop.depth - 1)
          ELSE depth' = r.st.loop.depth /\ runs' = runs
       /\ it' = [kind |-> "iterate", first |-> it.kind = "none",
                 block |-> block, oom_wait |-> oom_wait,
                 tv1 |-> tv1, tv2 |-> tv2, ready |-> ready,
                 pre |-> callbacks, pre_queue |-> need_dispatch,
                 post |-> r.st.loop.callbacks, post_depth |-> r.st.loop.depth,
                 post_queue |-> r.st.loop.need_dispatch,
                 pre_serial |-> callback_list_serial, pre_depth |-> depth,
                 pre_runs |-> runs,
                 oom |-> script.oom,
                 prev_skipped |-> IF it.kind = "iterate" THEN it.poll.skipped ELSE <<>>,
                 prev_reported |-> IF it.kind = "iterate" THEN Reported(it) ELSE {},
                 poll |-> r.poll, trace |-> r.st.trace, retval |-> r.st.retval]
  /\ UNCHANGED <<bus_vars, codec_vars, ref_vars>>

(* ---------------------------------------------------------------------- *)
(* The program around the loop                                             *)
(* ---------------------------------------------------------------------- *)

\* number of callbacks added to the loop in one behaviour
MaxCallbacks == 2

\* length of the dispatch FIFO
MaxQueue == 1

\* number of nested calls of _dbus_loop_run
MaxRuns == 2

\* _dbus_loop_add_watch
_dbus_loop_add_watch(enabled) ==
  /\ runs = <<>>
  /\ next_cb <= MaxCallbacks
  /\ \E loop \in {add_callback(ThisLoop, watch_callback_new(next_cb, enabled))} :
       /\ callbacks' = loop.callbacks
       /\ callback_list_serial' = loop.callback_list_serial
  /\ next_cb' = next_cb + 1
  /\ UNCHANGED <<depth, runs, it, need_dispatch>>
  /\ UNCHANGED <<bus_vars, codec_vars, ref_vars>>

\* _dbus_loop_add_timeout, tv being the current time
_dbus_loop_add_timeout(enabled, interval, tv) ==
  /\ runs = <<>>
  /\ next_cb <= MaxCallbacks
  /\ \E loop \in {add_callback(ThisLoop, timeout_callback_new(next_cb, enabled, interval,
                                                             tv[1], tv[2]))} :
       /\ callbacks' = loop.callbacks
       /\ callback_list_serial' = loop.callback_list_serial
  /\ next_cb' = next_cb + 1
  /\ UNCHANGED <<depth, runs, it, need_dispatch>>
  /\ UNCHANGED <<bus_vars, codec_vars, ref_vars>>

\* _dbus_loop_remove_watch, _dbus_loop_remove_timeout
_dbus_loop_remove_callback(id) ==
  /\ runs = <<>>
  /\ FindCallback(callbacks, id) # 0
  /\ \E loop \in {_dbus_loop_remove(ThisLoop, id)} :
       /\ callbacks' = loop.callbacks
       /\ callback_list_serial' = loop.callback_list_serial
  /\ UNCHANGED <<depth, runs, it, need_dispatch, next_cb>>
  /\ UNCHANGED <<bus_vars, codec_vars, ref_vars>>

\* a connection has messages to dispatch
QueueDispatch(connection) ==
  /\ runs = <<>>
  /\ Len(need_dispatch) < MaxQueue
  /\ need_dispatch' = _dbus_loop_queue_dispatch(need_dispatch, connection)
  /\ UNCHANGED loop_vars
  /\ UNCHANGED <<bus_vars, codec_vars, ref_vars>>

\* _dbus_loop_run is entered by the program
_dbus_loop_run ==
  /\ runs = <<>>
  /\ depth >= 0
  /\ runs' = <<depth>>
  /\ depth' = depth + 1
  /\ UNCHANGED <<callbacks, callback_list_serial, next_cb, it, need_dispatch>>
  /\ UNCHANGED <<bus_vars, codec_vars, ref_vars>>

\* the innermost _dbus_loop_run finds the depth it waits for and returns
RunReturn ==
  /\ runs # <<>>
  /\ depth = runs[Len(runs)]
  /\ runs' = SubSeq(runs, 1, Len(runs) - 1)
  /\ UNCHANGED <<callbacks, callback_list_serial, depth, next_cb, it, need_dispatch>>
  /\ UNCHANGED <<bus_vars, codec_vars, ref_vars>>

\* the identities of the watches of the list
WatchIds(list) == {list[i].id : i \in {j \in 1..Len(list) : list[j].type = CALLBACK_WATCH}}

\* the scripts of an iteration in which no watch is out of memory: no callback
\* does anything more than its work, or one of them does one more thing
Scripts(list) ==
  {Script({}, 0, "quit")}
  \cup {Script({}, list[i].id, effect) : i \in 1..Len(list), effect \in Effects}

\* the time of SpecLoop: the clock stands still
LoopTime == <<0, 0>>

\* an iteration of SpecLoop: a blocking one in which every watch polled is ready
\* and every callback has the memory it needs, and one of the callbacks or the
\* dispatch handler may change the loop
LoopIterate ==
  \E script \in Scripts(callbacks) : \E handler \in Handlers :
    /\ script.effect \in {"add_watch", "add_timeout"} => next_cb <= MaxCallbacks
    /\ handler = "run" => Len(runs) < MaxRuns
    /\ _dbus_loop_iterate(TRUE, OomWaitDefault, LoopTime, LoopTime, WatchIds(callbacks), script, handler, 32)

InitLoop == InitWith(0, <<>>)

NextLoop ==
  \/ _dbus_loop_add_watch(TRUE)
  \/ _dbus_loop_add_timeout(TRUE, AddedInterval, LoopTime)
  \/ QueueDispatch(1)
  \/ _dbus_loop_run
  \/ RunReturn
  \/ LoopIterate

SpecLoop == InitLoop /\ [][NextLoop]_vars

(* ---------------------------------------------------------------------- *)
(* Watches out of memory                                                   *)
(* ---------------------------------------------------------------------- *)

\* the time of SpecPoll: the clock stands still
PollTime == <<0, 0>>

\* the intervals of the timeouts of SpecPoll, in milliseconds: one that has the
\* timeout fire at once, one that leaves 700 ms
PollIntervals == {1000, 1700}

\* an iteration of SpecPoll: every watch polled is ready, or none is, and some
\* of the watch callbacks report that they are out of memory; no callback
\* changes the loop
PollIterate ==
  \E block \in BOOLEAN : \E oom_wait \in _dbus_get_oom_wait :
    \E ready \in {{}, WatchIds(callbacks)} : \E oom \in SUBSET ready :
      _dbus_loop_iterate(block, oom_wait, PollTime, PollTime, ready, Script(oom, 0, "quit"), "none", 32)

InitPoll == InitWith(0, <<>>)

NextPoll ==
  \/ \E enabled \in BOOLEAN : _dbus_loop_add_watch(enabled)
  \/ \E interval \in PollIntervals : _dbus_loop_add_timeout(TRUE, interval, PollTime)
  \/ QueueDispatch(1)
  \/ PollIterate

SpecPoll == InitPoll /\ [][NextPoll]_vars

(* ---------------------------------------------------------------------- *)
(* Timeouts and the clock                                                  *)
(* ---------------------------------------------------------------------- *)

\* the times the clock shows in SpecTime, <<seconds, microseconds>>
TimeSet == {<<0, 0>>, <<0, 500000>>, <<2, 0>>}

\* the intervals of the timeouts of SpecTime, in milliseconds
TimeIntervals == {500, 1500}

\* a is not after b
TimeLeq(a, b) == a[1] < b[1] \/ (a[1] = b[1] /\ a[2] <= b[2])

\* an iteration of SpecTime: the clock does not go back while the loop polls
\* (it may between two iterations); no callback changes the loop
TimeIterate ==
  \E block \in BOOLEAN : \E tv1 \in TimeSet : \E tv2 \in TimeSet : \E ulong_bits \in ULongBits :
    /\ TimeLeq(tv1, tv2)
    /\ _dbus_loop_iterate(block, OomWaitDefault, tv1, tv2, {}, Script({}, 0, "quit"), "none", ulong_bits)

InitTime == InitWith(0, <<>>)

NextTime ==
  \/ \E enabled \in BOOLEAN : \E interval \in TimeIntervals : \E tv \in TimeSet :
       _dbus_loop_add_timeout(enabled, interval, tv)
  \/ \E id \in 1..MaxCallbacks : _dbus_loop_remove_callback(id)
  \/ QueueDispatch(1)
  \/ TimeIterate

SpecTime == InitTime /\ [][NextTime]_vars

(* ---------------------------------------------------------------------- *)
(* Properties of the main loop                                             *)
(* ---------------------------------------------------------------------- *)

\* an iteration has been made; `it` tells what it did
Iterated == it.kind = "iterate"

\* the elements of a sequence
Range(seq) == {seq[i] : i \in 1..Len(seq)}

\* the watches of a list that are enabled
EnabledWatchIds(list) ==
  {list[i].id : i \in {j \in 1..Len(list) : list[j].type = CALLBACK_WATCH /\ list[j].enabled}}

\* C13: a watch whose function reported out-of-memory is left out of the poll
\* set in the very next iteration and in that one only: the watches an
\* iteration skips are those that reported out-of-memory in the iteration
\* before; they are not polled and their functions are not called; the
\* iteration that skips a watch returns TRUE; and the watches skipped by the
\* iteration before are polled again if they are still enabled.
C13_SkippedOnce ==
  Iterated =>
    /\ Range(it.poll.skipped) = it.prev_reported \cap WatchIds(it.pre)
    /\ Range(it.poll.skipped) \cap Range(it.poll.fds) = {}
    /\ \A k \in 1..Len(it.trace) :
         it.trace[k].kind = "watch" => it.trace[k].id \notin Range(it.poll.skipped)
    /\ it.poll.skipped # <<>> => it.retval
    /\ Range(it.prev_skipped) \cap EnabledWatchIds(it.pre) \subseteq Range(it.poll.fds)

\* an iteration skipped a watch and did nothing else, and the next one polls
\* the watch and calls its function
C13_Witness ==
  /\ Iterated
  /\ it.prev_skipped # <<>>
  /\ \E k \in 1..Len(it.trace) :
       it.trace[k].kind = "watch" /\ it.trace[k].id \in Range(it.prev_skipped)

\* C14: in any iteration that skips a watch because of out-of-memory, the
\* timeout handed to poll is at most the OOM interval (and is not the -1 that
\* makes poll wait without limit), also when the iteration is blocking, the
\* dispatch FIFO is empty and no timeout is registered.
C14_Original ==
  Iterated /\ it.poll.skipped # <<>> => it.poll.timeout \in 0..it.oom_wait

\* the entry is a call of a watch or timeout function
IsCallback(e) == e.kind \in {"watch", "timeout"}

\* the iteration left no connection waiting for dispatch
Drained == it.post_queue = <<>>

\* C15 as stated: once a watch or timeout function called by the iteration
\* has added or removed a watch or timeout, or has called quit or run, no
\* further watch or timeout function is called in that iteration, and the
\* dispatch FIFO is drained.
C15_Original ==
  Iterated =>
    /\ \A k \in 1..Len(it.trace) : \A l \in 1..Len(it.trace) :
         /\ k < l
         /\ IsCallback(it.trace[k])
         /\ it.trace[k].did \in {"add_watch", "add_timeout", "remove", "quit", "run"}
         => ~IsCallback(it.trace[l])
    /\ Drained

\* C15: once a watch or timeout function called by the iteration has left the
\* serial of the list or the depth other than they were when the iteration
\* began (it added or removed a watch or timeout, or called quit), no further
\* watch or timeout function is called in that iteration, and the dispatch
\* FIFO is drained.  A function that calls run comes back with the depth
\* unchanged and does not end the calls.
C15_Restart ==
  Iterated =>
    /\ \A k \in 1..Len(it.trace) : \A l \in 1..Len(it.trace) :
         /\ k < l
         /\ IsCallback(it.trace[k])
         /\ it.trace[k].serial # it.pre_serial \/ it.trace[k].depth # it.pre_depth
         => ~IsCallback(it.trace[l])
    /\ \A k \in 1..Len(it.trace) :
         it.trace[k].did \in {"add_watch", "add_timeout", "remove"}
         => it.trace[k].serial # it.pre_serial
    /\ \A k \in 1..Len(it.trace) :
         IsCallback(it.trace[k]) /\ it.trace[k].did = "quit"
         => it.trace[k].depth # it.pre_depth
    /\ Drained

\* the first of two ready watches changed the list or called quit, the second
\* was not called, and a connection was dispatched next
C15_Witness ==
  /\ Iterated
  /\ Len(it.poll.fds) >= 2
  /\ Range(it.poll.fds) \subseteq it.ready
  /\ Len(it.trace) = 2
  /\ it.trace[1].kind = "watch"
  /\ it.trace[1].id = it.poll.fds[1]
  /\ it.trace[1].did \in {"add_watch", "remove", "quit"}
  /\ it.trace[2].kind = "dispatch"

\* the place of a kind of call in an iteration
Rank(kind) == IF kind = "timeout" THEN 1 ELSE IF kind = "watch" THEN 2 ELSE 3

\* C16: within one iteration every timeout function the iteration calls is
\* called before every watch function, and every watch function before any
\* connection of the dispatch FIFO is dispatched; the watch functions are
\* called in the order the watches were added (identities are given in the
\* order of the adds).
C16_Order ==
  Iterated =>
    \A k \in 1..Len(it.trace) : \A l \in 1..Len(it.trace) :
      k < l =>
        /\ Rank(it.trace[k].kind) <= Rank(it.trace[l].kind)
        /\ it.trace[k].kind = "watch" /\ it.trace[l].kind = "watch"
           => it.trace[k].id < it.trace[l].id

\* an iteration called a timeout function, then a watch function, then
\* dispatched a connection
C16_Witness ==
  /\ Iterated
  /\ Len(it.trace) = 3
  /\ it.trace[1].kind = "timeout"
  /\ it.trace[2].kind = "watch"
  /\ it.trace[3].kind = "dispatch"

\* the enabled timeouts of a list
EnabledTimeouts(list) ==
  {i \in 1..Len(list) : list[i].type = CALLBACK_TIMEOUT /\ list[i].enabled}

\* microseconds from the last time a timeout was added or fired to time tv
\* (negative when the clock shows less than it did then)
ElapsedUsec(tcb, tv) ==
  (tv[1] - tcb.last_tv_sec) * 1000000 + (tv[2] - tcb.last_tv_usec)

\* milliseconds that remain at time tv until the timeout expires, 0 when it
\* has expired
RemainingMsec(tcb, tv) ==
  IF ElapsedUsec(tcb, tv) >= tcb.interval * 1000 THEN 0
  ELSE (tcb.interval * 1000 - ElapsedUsec(tcb, tv)) \div 1000

\* the number of calls of the function of callback id in the iteration
Calls(id) == Cardinality({k \in 1..Len(it.trace) : it.trace[k].id = id /\ IsCallback(it.trace[k])})

\* the iteration changed neither the list nor the depth
Undisturbed ==
  /\ \A k \in 1..Len(it.trace) :
       it.trace[k].serial = it.pre_serial /\ it.trace[k].depth = it.pre_depth
  /\ Len(it.post) = Len(it.pre)

\* C17: in an iteration with no list mutation and no depth change, every
\* enabled timeout whose interval has fully elapsed since it was added or
\* last fired, measured against the time read after the poll, has its
\* function called exactly once and its last-fired time set to that time.
C17_Original ==
  Iterated /\ Undisturbed =>
    \A i \in EnabledTimeouts(it.pre) :
      ElapsedUsec(it.pre[i], it.tv2) >= it.pre[i].interval * 1000
      => /\ Calls(it.pre[i].id) = 1
         /\ it.post[i].last_tv_sec = it.tv2[1]
         /\ it.post[i].last_tv_usec = it.tv2[2]

\* the largest interval of the enabled timeouts of a list, 0 with none
MaxInterval(list) ==
  IF EnabledTimeouts(list) = {} THEN 0
  ELSE CHOOSE m \in {list[i].interval : i \in EnabledTimeouts(list)} :
         \A i \in EnabledTimeouts(list) : list[i].interval <= m

\* C18: when the clock has been set backward by more than the largest
\* timeout interval (the time the iteration reads is that much before the
\* time a timeout was last stamped with), the iteration resets the last-fired
\* time of every such enabled timeout to the time it reads, so that the
\* timeout fires one interval after it at the latest.
C18_Original ==
  Iterated /\ Undisturbed =>
    \A i \in EnabledTimeouts(it.pre) :
      /\ ElapsedUsec(it.pre[i], it.tv1) < 0 - MaxInterval(it.pre) * 1000
      /\ ElapsedUsec(it.pre[i], it.tv2) < 0 - MaxInterval(it.pre) * 1000
      => <<it.post[i].last_tv_sec, it.post[i].last_tv_usec>> \in {it.tv1, it.tv2}

\* the smallest of a non-empty set of numbers
Smallest(set) == CHOOSE m \in set : \A n \in set : m <= n

\* C19: the timeout handed to poll is 0 when block is false or the dispatch
\* FIFO is not empty; otherwise it is the smallest number of milliseconds
\* that remain until expiry over the enabled timeouts, seconds and
\* sub-second part both counted, and it is without limit (-1) only when no
\* timeout is enabled.  Stated for iterations that skip no watch.
C19_Original ==
  Iterated /\ it.poll.polled /\ it.poll.skipped = <<>> =>
    it.poll.timeout =
      IF ~it.block \/ it.pre_queue # <<>> THEN 0
      ELSE IF EnabledTimeouts(it.pre) = {} THEN -1
      ELSE Smallest({RemainingMsec(it.pre[i], it.tv1) : i \in EnabledTimeouts(it.pre)})

\* C20: run increments the depth and returns exactly when the depth is back
\* at the value it had when the run was entered; quit decrements the depth
\* and is valid at depth > 0 only; with nested runs each quit terminates
\* exactly the innermost run still active and the outer runs keep iterating.
\* As a property of the states: the depth is never negative, it is above the
\* depth every run still active but the innermost waits for, and it never
\* falls below the depth the innermost run waits for (a quit that takes it
\* there terminates no run: the innermost run iterates until the depth is
\* equal to the one it waits for, and the outer runs are not reached).
C20_Original ==
  /\ depth >= 0
  /\ runs # <<>> => depth >= runs[Len(runs)]
  /\ \A j \in 1..Len(runs) : j < Len(runs) => runs[j] <= runs[j + 1]

(* ---------------------------------------------------------------------- *)
(* The wire codec (dbus-marshal-basic.c)                                   *)
(*                                                                         *)
(* A DBusString is the sequence of its bytes; position p of the C code is  *)
(* element p + 1 of the sequence.  Type codes are the ASCII codes that the *)
(* protocol gives them, so that a signature can lie in a value string.     *)
(* ---------------------------------------------------------------------- *)

DBUS_TYPE_INVALID == 0
DBUS_TYPE_BYTE == 121
DBUS_TYPE_BOOLEAN == 98
DBUS_TYPE_INT32 == 105
DBUS_TYPE_UINT32 == 117
DBUS_TYPE_INT64 == 120
DBUS_TYPE_UINT64 == 116
DBUS_TYPE_DOUBLE == 100
DBUS_TYPE_STRING == 115
DBUS_TYPE_OBJECT_PATH == 111
DBUS_TYPE_SIGNATURE == 103
DBUS_TYPE_ARRAY == 97
DBUS_TYPE_VARIANT == 118
DBUS_TYPE_STRUCT == 114
DBUS_STRUCT_BEGIN_CHAR == 40
DBUS_STRUCT_END_CHAR == 41

DBUS_LITTLE_ENDIAN == 108
DBUS_BIG_ENDIAN == 66

\* the byte order of the machine the code is compiled for
DBUS_COMPILER_BYTE_ORDER == DBUS_LITTLE_ENDIAN

\* n padding bytes
Nul(n) == [k \in 1..n |-> 0]

_dbus_string_get_length(str) == Len(str)

_dbus_string_get_byte(str, pos) == str[pos + 1]

\* the bytes are inserted before position pos
_dbus_string_insert_bytes(str, pos, bytes) == SubSeq(str, 1, pos) \o bytes \o SubSeq(str, pos + 1, Len(str))

_dbus_string_delete(str, start, len) == SubSeq(str, 1, start) \o SubSeq(str, start + len + 1, Len(str))

_DBUS_ALIGN_VALUE(this, boundary) == ((this + boundary - 1) \div boundary) * boundary

\* the insert position is padded up to the alignment, then the octets follow
_dbus_string_insert_aligned(str, insert_at, octets) == _dbus_string_insert_bytes(str, insert_at, Nul(_DBUS_ALIGN_VALUE(insert_at, Len(octets)) - insert_at) \o octets)

\* the bytes of a 32 bit value in the memory of the machine
HostOctets4(value) == <<value % 256, (value \div 256) % 256, (value \div 65536) % 256, (value \div 16777216) % 256>>

\* the 32 bit value that four bytes of memory hold, as a dbus_int32_t
HostValue4(octets) == octets[1] + 256 * octets[2] + 65536 * octets[3] + 16777216 * (IF octets[4] >= 128 THEN octets[4] - 256 ELSE octets[4])

\* DBUS_UINT32_SWAP_LE_BE and DBUS_UINT64_SWAP_LE_BE on the bytes in memory
SwapOctets(octets) == [k \in 1..Len(octets) |-> octets[Len(octets) + 1 - k]]

\* a 64 bit value is the pair <<high word, low word>>
HostOctets8(value) == HostOctets4(value[2]) \o HostOctets4(value[1])

HostValue8(octets) == <<HostValue4(SubSeq(octets, 5, 8)), HostValue4(SubSeq(octets, 1, 4))>>

_dbus_type_get_alignment(typecode) ==
  IF typecode \in {DBUS_TYPE_BYTE, DBUS_TYPE_BOOLEAN, DBUS_TYPE_VARIANT, DBUS_TYPE_SIGNATURE} THEN 1
  ELSE IF typecode \in {DBUS_TYPE_INT32, DBUS_TYPE_UINT32, DBUS_TYPE_STRING, DBUS_TYPE_OBJECT_PATH, DBUS_TYPE_ARRAY} THEN 4
  ELSE IF typecode \in {DBUS_TYPE_INT64, DBUS_TYPE_UINT64, DBUS_TYPE_DOUBLE, DBUS_TYPE_STRUCT} THEN 8
  ELSE 0

\* the outcome of an operation that inserts into a string: the string, the
\* position after what was inserted, and whether memory sufficed
Marshalled(ok, str, pos_after) == [ok |-> ok, str |-> str, pos_after |-> pos_after]

\* the octets are inserted in the order of the machine whatever the byte order
marshal_4_octets_no_swap(str, insert_at, value, byte_order, oom) ==
  The({Marshalled(~oom, after, insert_at + (Len(after) - Len(str)))
       : after \in {IF oom THEN str ELSE _dbus_string_insert_aligned(str, insert_at, HostOctets4(value))}})

\* oom: the allocation of _dbus_string_insert_4_aligned fails
marshal_4_octets(str, insert_at, value, byte_order, oom) ==
  LET octets == IF byte_order # DBUS_COMPILER_BYTE_ORDER THEN SwapOctets(HostOctets4(value)) ELSE HostOctets4(value)
  IN The({Marshalled(~oom, after, insert_at + (Len(after) - Len(str)))
          : after \in {IF oom THEN str ELSE _dbus_string_insert_aligned(str, insert_at, octets)}})

marshal_8_octets(str, insert_at, value, byte_order, oom) ==
  LET octets == IF byte_order # DBUS_COMPILER_BYTE_ORDER THEN SwapOctets(HostOctets8(value)) ELSE HostOctets8(value)
  IN The({Marshalled(~oom, after, insert_at + Len(after) - Len(str))
          : after \in {IF oom THEN str ELSE _dbus_string_insert_aligned(str, insert_at, octets)}})

MARSHAL_AS_STRING == 0
MARSHAL_AS_SIGNATURE == 1

\* the same without the deletion at the label oom
marshal_len_followed_by_bytes_no_delete(marshal_as, str, insert_at, value, byte_order, fail) ==
  LET value_str == value \o <<0>>
      head == IF marshal_as = MARSHAL_AS_SIGNATURE
              THEN IF fail = 1 THEN Marshalled(FALSE, str, insert_at)
                   ELSE Marshalled(TRUE, _dbus_string_insert_bytes(str, insert_at, <<Len(value)>>), insert_at + 1)
              ELSE marshal_4_octets(str, insert_at, Len(value), byte_order, fail = 1)
  IN IF ~head.ok THEN Marshalled(FALSE, head.str, insert_at)
     ELSE IF fail = 2 THEN Marshalled(FALSE, head.str, insert_at)
     ELSE Marshalled(TRUE, _dbus_string_insert_bytes(head.str, head.pos_after, value_str), head.pos_after + Len(value_str))

\* fail: 1 when the insertion of the length fails, 2 when the copy of the
\* bytes fails, anything else when memory suffices.  pos_after is set on
\* success only
marshal_len_followed_by_bytes(marshal_as, str, insert_at, value, byte_order, fail) ==
  LET value_str == value \o <<0>>
  IN The({IF ~head.ok \/ fail = 2
          THEN Marshalled(FALSE, _dbus_string_delete(head.str, insert_at, head.pos_after - insert_at), insert_at)
          ELSE Marshalled(TRUE, _dbus_string_insert_bytes(head.str, head.pos_after, value_str), head.pos_after + Len(value_str))
          : head \in {IF marshal_as = MARSHAL_AS_SIGNATURE
                      THEN IF fail = 1 THEN Marshalled(FALSE, str, insert_at)
                           ELSE Marshalled(TRUE, _dbus_string_insert_bytes(str, insert_at, <<Len(value)>>), insert_at + 1)
                      ELSE marshal_4_octets(str, insert_at, Len(value), byte_order, fail = 1)}})

OctetTypes1 == {DBUS_TYPE_BYTE, DBUS_TYPE_BOOLEAN}
OctetTypes4 == {DBUS_TYPE_INT32, DBUS_TYPE_UINT32}
OctetTypes8 == {DBUS_TYPE_INT64, DBUS_TYPE_UINT64, DBUS_TYPE_DOUBLE}
StringTypes == {DBUS_TYPE_STRING, DBUS_TYPE_OBJECT_PATH}

\* fail counts the allocations of the call, 0 when memory suffices
_dbus_marshal_basic_type(str, insert_at, type, value, byte_order, fail) ==
  IF type \in OctetTypes1
  THEN IF fail = 1 THEN Marshalled(FALSE, str, insert_at)
       ELSE Marshalled(TRUE, _dbus_string_insert_bytes(str, insert_at, <<value>>), insert_at + 1)
  ELSE IF type \in OctetTypes4 THEN marshal_4_octets(str, insert_at, value, byte_order, fail = 1)
  ELSE IF type \in OctetTypes8 THEN marshal_8_octets(str, insert_at, value, byte_order, fail = 1)
  ELSE IF type \in StringTypes THEN marshal_len_followed_by_bytes(MARSHAL_AS_STRING, str, insert_at, value, byte_order, fail)
  ELSE marshal_len_followed_by_bytes(MARSHAL_AS_SIGNATURE, str, insert_at, value, DBUS_COMPILER_BYTE_ORDER, fail)

\* number of allocations of _dbus_marshal_basic_type for the type
MarshalAllocations(type) == IF type \in StringTypes \cup {DBUS_TYPE_SIGNATURE} THEN 2 ELSE 1

\* what a read of position pos finds: the byte of the string, or Beyond past
\* the end of the string, where the decoder reads without a check
Beyond == 0 - 1

Peek(str, pos) == IF pos >= 0 /\ pos < Len(str) THEN str[pos + 1] ELSE Beyond

PeekOctets(str, pos, n) == [k \in 1..n |-> Peek(str, pos + k - 1)]

\* the C string that starts at position pos: the bytes before the first nul
CString(str, pos) ==
  LET n == CHOOSE k \in 0..Len(str) + 1 : /\ Peek(str, pos + k) \in {0, Beyond}
                                           /\ \A j \in 0..k - 1 : Peek(str, pos + j) \notin {0, Beyond}
  IN SubSeq(str, pos + 1, pos + n)

Demarshalled(value, new_pos) == [value |-> value, new_pos |-> new_pos]

\* the value is Beyond when one of its octets lies past the end of the string
Unpacked4(octets, byte_order) ==
  IF Beyond \in {octets[k] : k \in 1..4} THEN Beyond
  ELSE HostValue4(IF byte_order # DBUS_COMPILER_BYTE_ORDER THEN SwapOctets(octets) ELSE octets)

Unpacked8(octets, byte_order) ==
  IF Beyond \in {octets[k] : k \in 1..8} THEN Beyond
  ELSE HostValue8(IF byte_order # DBUS_COMPILER_BYTE_ORDER THEN SwapOctets(octets) ELSE octets)

demarshal_4_octets(str, byte_order, pos) ==
  LET aligned == _DBUS_ALIGN_VALUE(pos, 4)
  IN Demarshalled(Unpacked4(PeekOctets(str, aligned, 4), byte_order), aligned + 4)

_dbus_demarshal_uint32(str, byte_order, pos) == demarshal_4_octets(str, byte_order, pos)

\* the decoder without the byte swap
_dbus_demarshal_basic_type_no_swap(str, type, byte_order, pos) ==
  IF type \in OctetTypes1 THEN Demarshalled(Peek(str, pos), pos + 1)
  ELSE IF type \in OctetTypes4
  THEN Demarshalled(Unpacked4(PeekOctets(str, _DBUS_ALIGN_VALUE(pos, 4), 4), DBUS_COMPILER_BYTE_ORDER), _DBUS_ALIGN_VALUE(pos, 4) + 4)
  ELSE IF type \in OctetTypes8
  THEN Demarshalled(Unpacked8(PeekOctets(str, _DBUS_ALIGN_VALUE(pos, 8), 8), DBUS_COMPILER_BYTE_ORDER), _DBUS_ALIGN_VALUE(pos, 8) + 8)
  ELSE IF type \in StringTypes
  THEN LET len == _dbus_demarshal_uint32(str, byte_order, pos)
       IN Demarshalled(CString(str, len.new_pos), IF len.value = Beyond THEN Beyond ELSE len.new_pos + len.value + 1)
  ELSE LET len == Peek(str, pos)
       IN Demarshalled(CString(str, pos + 1), IF len = Beyond THEN Beyond ELSE pos + 1 + len + 1)

\* the function has no return value: every call hands back a value and a
\* position (a string value is a pointer into str, read as a C string)
_dbus_demarshal_basic_type(str, type, byte_order, pos) ==
  IF type \in OctetTypes1 THEN Demarshalled(Peek(str, pos), pos + 1)
  ELSE IF type \in OctetTypes4
  THEN Demarshalled(Unpacked4(PeekOctets(str, _DBUS_ALIGN_VALUE(pos, 4), 4), byte_order), _DBUS_ALIGN_VALUE(pos, 4) + 4)
  ELSE IF type \in OctetTypes8
  THEN Demarshalled(Unpacked8(PeekOctets(str, _DBUS_ALIGN_VALUE(pos, 8), 8), byte_order), _DBUS_ALIGN_VALUE(pos, 8) + 8)
  ELSE IF type \in StringTypes
  THEN The({Demarshalled(CString(str, len.new_pos), IF len.value = Beyond THEN Beyond ELSE len.new_pos + len.value + 1)
            : len \in {_dbus_demarshal_uint32(str, byte_order, pos)}})
  ELSE The({Demarshalled(CString(str, pos + 1), IF len = Beyond THEN Beyond ELSE pos + 1 + len + 1)
            : len \in {Peek(str, pos)}})

\* the skip that takes the length byte of a signature for a part of its length
_dbus_marshal_skip_basic_type_signature_plus_1(str, type, byte_order, pos) ==
  IF type \in OctetTypes1 THEN pos + 1
  ELSE IF type \in OctetTypes4 THEN _DBUS_ALIGN_VALUE(pos, 4) + 4
  ELSE IF type \in OctetTypes8 THEN _DBUS_ALIGN_VALUE(pos, 8) + 8
  ELSE IF type \in StringTypes
  THEN The({IF len.value = Beyond THEN Beyond ELSE len.new_pos + len.value + 1
            : len \in {_dbus_demarshal_uint32(str, byte_order, pos)}})
  ELSE The({IF len = Beyond THEN Beyond ELSE pos + len + 1 : len \in {Peek(str, pos)}})

\* the position after the value at pos
_dbus_marshal_skip_basic_type(str, type, byte_order, pos) ==
  IF type \in OctetTypes1 THEN pos + 1
  ELSE IF type \in OctetTypes4 THEN _DBUS_ALIGN_VALUE(pos, 4) + 4
  ELSE IF type \in OctetTypes8 THEN _DBUS_ALIGN_VALUE(pos, 8) + 8
  ELSE IF type \in StringTypes
  THEN The({IF len.value = Beyond THEN Beyond ELSE len.new_pos + len.value + 1
            : len \in {_dbus_demarshal_uint32(str, byte_order, pos)}})
  ELSE The({IF len = Beyond THEN Beyond ELSE pos + len + 2 : len \in {Peek(str, pos)}})

\* the skip without the padding between the length and the elements
_dbus_marshal_skip_array_no_padding(str, byte_order, element_type, pos) ==
  LET array_len == _dbus_demarshal_basic_type(str, DBUS_TYPE_UINT32, byte_order, _DBUS_ALIGN_VALUE(pos, 4))
  IN IF array_len.value = Beyond THEN Beyond ELSE array_len.new_pos + array_len.value

_dbus_marshal_skip_array(str, byte_order, element_type, pos) ==
  The({IF array_len.value = Beyond THEN Beyond
       ELSE _DBUS_ALIGN_VALUE(array_len.new_pos, _dbus_type_get_alignment(element_type)) + array_len.value
       : array_len \in {_dbus_demarshal_basic_type(str, DBUS_TYPE_UINT32, byte_order, _DBUS_ALIGN_VALUE(pos, 4))}})

\* _dbus_marshal_set_uint32: the four bytes at offset are replaced
_dbus_marshal_set_uint32(str, byte_order, offset, value) ==
  LET octets == IF byte_order = DBUS_LITTLE_ENDIAN THEN HostOctets4(value) ELSE SwapOctets(HostOctets4(value))
  IN SubSeq(str, 1, offset) \o octets \o SubSeq(str, offset + 5, Len(str))

(* ---------------------------------------------------------------------- *)
(* The type reader (dbus-marshal-recursive.c)                              *)
(*                                                                         *)
(* The strings of a block are strs.signature and strs.body; a reader or a  *)
(* writer points at a string by its name, as the C code does by address.   *)
(* ---------------------------------------------------------------------- *)

\* a field that the C code leaves without a value
Uninitialized == "uninitialized"

BodyReaderClass == 0
StructReaderClass == 2
ArrayReaderClass == 4
VariantReaderClass == 6

first_type_in_signature(str, pos) ==
  LET t == Peek(str, pos)
  IN IF t = DBUS_STRUCT_BEGIN_CHAR THEN DBUS_TYPE_STRUCT ELSE t

element_type_get_alignment(str, pos) == _dbus_type_get_alignment(first_type_in_signature(str, pos))

\* the scan of a struct signature behind its opening parenthesis
RECURSIVE SkipStruct(_, _, _)
SkipStruct(str, pos, nesting) ==
  IF nesting = 0 \/ Peek(str, pos) \in {DBUS_TYPE_INVALID, Beyond} THEN pos
  ELSE SkipStruct(str, pos + 1, IF Peek(str, pos) = DBUS_STRUCT_BEGIN_CHAR THEN nesting + 1
                                ELSE IF Peek(str, pos) = DBUS_STRUCT_END_CHAR THEN nesting - 1
                                ELSE nesting)

RECURSIVE skip_one_complete_type(_, _)
skip_one_complete_type(type_str, type_pos) ==
  IF Peek(type_str, type_pos) = DBUS_TYPE_ARRAY THEN skip_one_complete_type(type_str, type_pos + 1)
  ELSE IF Peek(type_str, type_pos) = DBUS_STRUCT_BEGIN_CHAR THEN SkipStruct(type_str, type_pos + 1, 1)
  ELSE type_pos + 1

find_len_of_complete_type(type_str, type_pos) == skip_one_complete_type(type_str, type_pos) - type_pos

reader_init(klass, byte_order, type_str, type_pos, value_str, value_pos) ==
  [klass |-> klass, byte_order |-> byte_order, finished |-> FALSE,
   type_str |-> type_str, type_pos |-> type_pos,
   value_str |-> value_str, value_pos |-> value_pos,
   array_len_offset |-> Uninitialized, start_pos |-> Uninitialized]

_dbus_type_reader_init(byte_order, type_str, type_pos, value_str, value_pos) ==
  reader_init(BodyReaderClass, byte_order, type_str, type_pos, value_str, value_pos)

base_reader_recurse(klass, parent) ==
  reader_init(klass, parent.byte_order, parent.type_str, parent.type_pos, parent.value_str, parent.value_pos)

struct_reader_recurse(strs, parent) ==
  LET sub == base_reader_recurse(StructReaderClass, parent)
  IN [sub EXCEPT !.type_pos = sub.type_pos + 1, !.value_pos = _DBUS_ALIGN_VALUE(sub.value_pos, 8)]

array_reader_get_array_len(strs, reader) ==
  LET len_pos == reader.start_pos - reader.array_len_offset - 4
  IN _dbus_demarshal_basic_type(strs[reader.value_str], DBUS_TYPE_UINT32, reader.byte_order, len_pos).value

array_reader_recurse(strs, parent) ==
  The({The({[sub EXCEPT !.type_pos = sub.type_pos + 1, !.value_pos = start_pos, !.start_pos = start_pos,
                        !.array_len_offset = start_pos - (_DBUS_ALIGN_VALUE(sub.value_pos, 4) + 4)]
            : start_pos \in {_DBUS_ALIGN_VALUE(_DBUS_ALIGN_VALUE(sub.value_pos, 4) + 4,
                                               element_type_get_alignment(strs[sub.type_str], sub.type_pos + 1))}})
       : sub \in {base_reader_recurse(ArrayReaderClass, parent)}})

variant_reader_recurse(strs, parent) ==
  LET sub == base_reader_recurse(VariantReaderClass, parent)
      sig_len == Peek(strs[sub.value_str], sub.value_pos)
      type_pos == sub.value_pos + 1
  IN [sub EXCEPT !.type_str = sub.value_str, !.type_pos = type_pos,
                 !.value_pos = _DBUS_ALIGN_VALUE(type_pos + sig_len + 1, 8)]

array_reader_check_finished(strs, reader) ==
  reader.value_pos = reader.start_pos + array_reader_get_array_len(strs, reader)

_dbus_type_reader_get_current_type(strs, reader) ==
  IF reader.finished \/ (reader.klass = ArrayReaderClass /\ array_reader_check_finished(strs, reader))
  THEN DBUS_TYPE_INVALID
  ELSE first_type_in_signature(strs[reader.type_str], reader.type_pos)

_dbus_type_reader_array_is_empty(strs, reader) ==
  _dbus_demarshal_basic_type(strs[reader.value_str], DBUS_TYPE_UINT32, reader.byte_order, reader.value_pos).value = 0

_dbus_type_reader_read_basic(strs, reader) ==
  _dbus_demarshal_basic_type(strs[reader.value_str], _dbus_type_reader_get_current_type(strs, reader),
                             reader.byte_order, reader.value_pos).value

\* the current type is a container
_dbus_type_reader_recurse(strs, reader) ==
  LET t == first_type_in_signature(strs[reader.type_str], reader.type_pos)
  IN IF t = DBUS_TYPE_STRUCT THEN struct_reader_recurse(strs, reader)
     ELSE IF t = DBUS_TYPE_ARRAY THEN array_reader_recurse(strs, reader)
     ELSE variant_reader_recurse(strs, reader)

\* the signature of the current value: its start and its length in type_str
_dbus_type_reader_get_signature(strs, reader) ==
  [str |-> reader.type_str, start |-> reader.type_pos,
   len |-> find_len_of_complete_type(strs[reader.type_str], reader.type_pos)]

\* while (_dbus_type_reader_next (&sub)): the reader at the end of its container
RECURSIVE ReaderAtEnd(_, _)

base_reader_next(strs, reader, current_type) ==
  IF current_type \in {DBUS_TYPE_STRUCT, DBUS_TYPE_VARIANT}
  THEN The({[reader EXCEPT !.type_pos = IF current_type = DBUS_TYPE_VARIANT THEN reader.type_pos + 1 ELSE sub.type_pos,
                           !.value_pos = sub.value_pos] : sub \in {ReaderAtEnd(strs, _dbus_type_reader_recurse(strs, reader))}})
  ELSE IF current_type = DBUS_TYPE_ARRAY
  THEN [reader EXCEPT !.value_pos = _dbus_marshal_skip_array(strs[reader.value_str], reader.byte_order,
                                                             first_type_in_signature(strs[reader.type_str], reader.type_pos + 1),
                                                             reader.value_pos),
                      !.type_pos = skip_one_complete_type(strs[reader.type_str], reader.type_pos)]
  ELSE [reader EXCEPT !.value_pos = _dbus_marshal_skip_basic_type(strs[reader.value_str], current_type,
                                                                  reader.byte_order, reader.value_pos),
                      !.type_pos = reader.type_pos + 1]

\* the reader of a struct that does not finish at the end of the struct
struct_reader_next_never_finished(strs, reader, current_type) == base_reader_next(strs, reader, current_type)

struct_reader_next(strs, reader, current_type) ==
  The({IF Peek(strs[after.type_str], after.type_pos) = DBUS_STRUCT_END_CHAR
       THEN [after EXCEPT !.type_pos = after.type_pos + 1, !.finished = TRUE]
       ELSE after : after \in {base_reader_next(strs, reader, current_type)}})

array_reader_next(strs, reader, current_type) ==
  LET end_pos == reader.start_pos + array_reader_get_array_len(strs, reader)
      t == first_type_in_signature(strs[reader.type_str], reader.type_pos)
      value_pos == IF t \in {DBUS_TYPE_STRUCT, DBUS_TYPE_VARIANT}
                   THEN ReaderAtEnd(strs, _dbus_type_reader_recurse(strs, reader)).value_pos
                   ELSE IF t = DBUS_TYPE_ARRAY
                   THEN _dbus_marshal_skip_array(strs[reader.value_str], reader.byte_order,
                                                 first_type_in_signature(strs[reader.type_str], reader.type_pos + 1),
                                                 reader.value_pos)
                   ELSE _dbus_marshal_skip_basic_type(strs[reader.value_str], current_type,
                                                      reader.byte_order, reader.value_pos)
  IN The({[reader EXCEPT !.value_pos = pos,
                         !.type_pos = IF pos = end_pos
                                      THEN skip_one_complete_type(strs[reader.type_str], reader.type_pos)
                                      ELSE reader.type_pos] : pos \in {value_pos}})

\* the reader after the call; the call returns FALSE when the current type
\* of that reader is DBUS_TYPE_INVALID
_dbus_type_reader_next(strs, reader) ==
  The({IF t = DBUS_TYPE_INVALID THEN reader
       ELSE IF reader.klass = StructReaderClass THEN struct_reader_next(strs, reader, t)
       ELSE IF reader.klass = ArrayReaderClass THEN array_reader_next(strs, reader, t)
       ELSE base_reader_next(strs, reader, t) : t \in {_dbus_type_reader_get_current_type(strs, reader)}})

ReaderAtEnd(strs, sub) ==
  IF _dbus_type_reader_get_current_type(strs, sub) = DBUS_TYPE_INVALID THEN sub
  ELSE ReaderAtEnd(strs, _dbus_type_reader_next(strs, sub))

_dbus_type_reader_save_mark(reader) ==
  [type_pos_in_value_str |-> reader.type_str = reader.value_str, container_type |-> reader.klass,
   type_pos |-> reader.type_pos, value_pos |-> reader.value_pos,
   array_len_offset |-> reader.array_len_offset, array_start_pos |-> reader.start_pos]

\* type_str and value_str name the strings the caller hands in
_dbus_type_reader_init_from_mark(byte_order, type_str, value_str, mark) ==
  LET reader == reader_init(mark.container_type, byte_order,
                            IF mark.type_pos_in_value_str THEN value_str ELSE type_str,
                            mark.type_pos, value_str, mark.value_pos)
  IN IF reader.klass = ArrayReaderClass
     THEN [reader EXCEPT !.start_pos = mark.array_start_pos, !.array_len_offset = mark.array_len_offset]
     ELSE reader

(* ---------------------------------------------------------------------- *)
(* The type writer (dbus-marshal-recursive.c)                              *)
(*                                                                         *)
(* An operation hands back whether it returned TRUE, the strings, the      *)
(* writer it was called on and the sub-writer.  fail is the number of the  *)
(* allocation of the call that fails, 0 when memory suffices.              *)
(* ---------------------------------------------------------------------- *)

_dbus_type_writer_init(byte_order, type_str, type_pos, value_str, value_pos) ==
  [byte_order |-> byte_order, type_str |-> type_str, type_pos |-> type_pos,
   value_str |-> value_str, value_pos |-> value_pos,
   container_type |-> DBUS_TYPE_INVALID, type_pos_is_expectation |-> FALSE,
   element_type_pos |-> Uninitialized, len_pos |-> Uninitialized, start_pos |-> Uninitialized]

Written(ok, strs, writer, sub) == [ok |-> ok, strs |-> strs, writer |-> writer, sub |-> sub]

\* the sub-writer forgets that types are expected below a struct
writer_recurse_init_and_check_own_container_only(writer, container_type) ==
  [_dbus_type_writer_init(writer.byte_order, writer.type_str, writer.type_pos, writer.value_str, writer.value_pos)
     EXCEPT !.container_type = container_type,
            !.type_pos_is_expectation = container_type \in {DBUS_TYPE_ARRAY, DBUS_TYPE_VARIANT}]

writer_recurse_init_and_check(writer, container_type) ==
  [_dbus_type_writer_init(writer.byte_order, writer.type_str, writer.type_pos, writer.value_str, writer.value_pos)
     EXCEPT !.container_type = container_type,
            !.type_pos_is_expectation = writer.type_pos_is_expectation \/ container_type \in {DBUS_TYPE_ARRAY, DBUS_TYPE_VARIANT}]

\* the typecode is inserted whether or not the type is expected
write_or_verify_typecode_always_inserts(strs, writer, typecode, oom) ==
  IF oom THEN Written(FALSE, strs, writer, writer)
  ELSE Written(TRUE, [strs EXCEPT ![writer.type_str] = _dbus_string_insert_bytes(@, writer.type_pos, <<typecode>>)],
               [writer EXCEPT !.type_pos = writer.type_pos + 1], writer)

\* oom: the allocation of _dbus_string_insert_byte fails
write_or_verify_typecode(strs, writer, typecode, oom) ==
  IF writer.type_pos_is_expectation
  THEN Written(TRUE, strs,
               IF writer.container_type # DBUS_TYPE_ARRAY THEN [writer EXCEPT !.type_pos = writer.type_pos + 1] ELSE writer,
               writer)
  ELSE IF oom THEN Written(FALSE, strs, writer, writer)
  ELSE Written(TRUE, [strs EXCEPT ![writer.type_str] = _dbus_string_insert_bytes(@, writer.type_pos, <<typecode>>)],
               [writer EXCEPT !.type_pos = writer.type_pos + 1], writer)

\* the padding that brings position pos of the string to the boundary
Padded(str, pos, boundary) == _dbus_string_insert_bytes(str, pos, Nul(_DBUS_ALIGN_VALUE(pos, boundary) - pos))

writer_recurse_struct(strs, writer, sub, fail) ==
  IF fail \in {1, 2} THEN Written(FALSE, strs, writer, sub)
  ELSE The({Written(TRUE,
                    [typed.strs EXCEPT ![sub.value_str] = Padded(@, sub.value_pos, 8)],
                    writer,
                    [typed.writer EXCEPT !.value_pos = _DBUS_ALIGN_VALUE(sub.value_pos, 8)])
            : typed \in {write_or_verify_typecode(strs, sub, DBUS_STRUCT_BEGIN_CHAR, FALSE)}})

_dbus_type_writer_write_basic_no_typecode(strs, writer, type, value, fail) ==
  The({Written(m.ok, [strs EXCEPT ![writer.value_str] = m.str], [writer EXCEPT !.value_pos = m.pos_after], writer)
       : m \in {_dbus_marshal_basic_type(strs[writer.value_str], writer.value_pos, type, value, writer.byte_order, fail)}})

\* the array without the padding in front of its elements
writer_recurse_array_no_padding(strs, writer, contained_type, sub, fail) ==
  IF fail = 1 THEN Written(FALSE, strs, writer, sub)
  ELSE IF fail = 2 /\ ~writer.type_pos_is_expectation
  THEN Written(FALSE, strs, writer, [sub EXCEPT !.type_pos = sub.type_pos + 1, !.element_type_pos = sub.type_pos + 1])
  ELSE LET sub1 == [sub EXCEPT !.type_pos = sub.type_pos + 1, !.element_type_pos = sub.type_pos + 1]
           strs1 == IF ~writer.type_pos_is_expectation
                    THEN LET typed == [strs EXCEPT ![writer.type_str] = _dbus_string_insert_bytes(@, writer.type_pos, <<DBUS_TYPE_ARRAY>>)]
                         IN [typed EXCEPT ![sub1.type_str] = _dbus_string_insert_bytes(@, sub1.element_type_pos, contained_type)]
                    ELSE strs
           writer1 == IF writer.container_type # DBUS_TYPE_ARRAY
                      THEN [writer EXCEPT !.type_pos = writer.type_pos + 1 + Len(contained_type)]
                      ELSE writer
           len_pos == _DBUS_ALIGN_VALUE(sub1.value_pos, 4)
           len == _dbus_type_writer_write_basic_no_typecode(strs1, sub1, DBUS_TYPE_UINT32, 0, 0)
       IN Written(TRUE, len.strs, writer1,
                  [len.writer EXCEPT !.len_pos = len_pos, !.start_pos = len.writer.value_pos])

writer_recurse_array(strs, writer, contained_type, sub, fail) ==
  IF fail = 1 THEN Written(FALSE, strs, writer, sub)
  ELSE IF fail = 2 /\ ~writer.type_pos_is_expectation
  THEN Written(FALSE, strs, writer, [sub EXCEPT !.type_pos = sub.type_pos + 1, !.element_type_pos = sub.type_pos + 1])
  ELSE LET sub1 == [sub EXCEPT !.type_pos = sub.type_pos + 1, !.element_type_pos = sub.type_pos + 1]
           strs1 == IF ~writer.type_pos_is_expectation
                    THEN LET typed == [strs EXCEPT ![writer.type_str] = _dbus_string_insert_bytes(@, writer.type_pos, <<DBUS_TYPE_ARRAY>>)]
                         IN [typed EXCEPT ![sub1.type_str] = _dbus_string_insert_bytes(@, sub1.element_type_pos, contained_type)]
                    ELSE strs
           writer1 == IF writer.container_type # DBUS_TYPE_ARRAY
                      THEN [writer EXCEPT !.type_pos = writer.type_pos + 1 + Len(contained_type)]
                      ELSE writer
           len_pos == _DBUS_ALIGN_VALUE(sub1.value_pos, 4)
       IN The({The({The({Written(TRUE,
                                 [len.strs EXCEPT ![sub1.value_str] = Padded(@, len.writer.value_pos, alignment)],
                                 writer1,
                                 [len.writer EXCEPT !.value_pos = aligned, !.len_pos = len_pos, !.start_pos = aligned])
                         : aligned \in {_DBUS_ALIGN_VALUE(len.writer.value_pos, alignment)}})
                    : alignment \in {element_type_get_alignment(contained_type, 0)}})
               : len \in {_dbus_type_writer_write_basic_no_typecode(strs1, sub1, DBUS_TYPE_UINT32, 0, 0)}})

writer_recurse_variant(strs, writer, contained_type, sub, fail) ==
  IF fail = 1 THEN Written(FALSE, strs, writer, sub)
  ELSE LET type_pos == sub.value_pos + 1
           value_pos == type_pos + Len(contained_type) + 1
           sig == <<Len(contained_type)>> \o contained_type \o <<DBUS_TYPE_INVALID>>
       IN The({IF ~typed.ok THEN Written(FALSE, strs, writer, sub)
               ELSE Written(TRUE,
                            [typed.strs EXCEPT ![sub.value_str] = Padded(_dbus_string_insert_bytes(@, sub.value_pos, sig), value_pos, 8)],
                            typed.writer,
                            [sub EXCEPT !.type_str = sub.value_str, !.type_pos = type_pos,
                                        !.value_pos = _DBUS_ALIGN_VALUE(value_pos, 8)])
               : typed \in {write_or_verify_typecode(strs, writer, DBUS_TYPE_VARIANT, fail = 2)}})

_dbus_type_writer_recurse_contained_len(strs, writer, container_type, contained_type, fail) ==
  The({IF container_type = DBUS_TYPE_STRUCT THEN writer_recurse_struct(strs, writer, sub, fail)
       ELSE IF container_type = DBUS_TYPE_ARRAY THEN writer_recurse_array(strs, writer, contained_type, sub, fail)
       ELSE writer_recurse_variant(strs, writer, contained_type, sub, fail)
       : sub \in {writer_recurse_init_and_check(writer, container_type)}})

\* contained_type is the signature at contained_type_start, the empty
\* sequence for NULL: its first complete type is what the container holds
_dbus_type_writer_recurse(strs, writer, container_type, contained_type, fail) ==
  _dbus_type_writer_recurse_contained_len(strs, writer, container_type,
                                          IF contained_type = <<>> THEN <<>>
                                          ELSE SubSeq(contained_type, 1, find_len_of_complete_type(contained_type, 0)),
                                          fail)

\* the length of the array is left as writer_recurse_array wrote it
_dbus_type_writer_unrecurse_no_length(strs, writer, sub, fail) ==
  LET typed == IF sub.container_type = DBUS_TYPE_STRUCT
               THEN write_or_verify_typecode(strs, sub, DBUS_STRUCT_END_CHAR, fail = 1)
               ELSE Written(TRUE, strs, sub, sub)
      sub1 == typed.writer
  IN IF ~typed.ok THEN Written(FALSE, strs, writer, sub)
     ELSE Written(TRUE, typed.strs,
                  [writer EXCEPT !.type_pos = IF sub1.container_type = DBUS_TYPE_STRUCT
                                                 /\ writer.container_type \in {DBUS_TYPE_STRUCT, DBUS_TYPE_INVALID}
                                              THEN sub1.type_pos ELSE writer.type_pos,
                                 !.value_pos = sub1.value_pos],
                  sub1)

_dbus_type_writer_unrecurse(strs, writer, sub, fail) ==
  The({IF ~typed.ok THEN Written(FALSE, strs, writer, sub)
       ELSE Written(TRUE, typed.strs,
                    [writer EXCEPT !.type_pos = IF typed.writer.container_type = DBUS_TYPE_STRUCT
                                                   /\ writer.container_type \in {DBUS_TYPE_STRUCT, DBUS_TYPE_INVALID}
                                                THEN typed.writer.type_pos ELSE writer.type_pos,
                                   !.value_pos = typed.writer.value_pos],
                    typed.writer)
       : typed \in {IF sub.container_type = DBUS_TYPE_STRUCT
                    THEN write_or_verify_typecode(strs, sub, DBUS_STRUCT_END_CHAR, fail = 1)
                    ELSE IF sub.container_type = DBUS_TYPE_ARRAY
                    THEN Written(TRUE,
                                 [strs EXCEPT ![sub.value_str] = _dbus_marshal_set_uint32(@, sub.byte_order, sub.len_pos,
                                                                                           sub.value_pos - sub.start_pos)],
                                 sub, sub)
                    ELSE Written(TRUE, strs, sub, sub)}})

_dbus_type_writer_write_basic(strs, writer, type, value, fail) ==
  IF fail = 1 THEN Written(FALSE, strs, writer, writer)
  ELSE The({IF ~valued.ok THEN Written(FALSE, valued.strs, valued.writer, writer)
            ELSE write_or_verify_typecode(valued.strs, valued.writer, type, FALSE)
            : valued \in {_dbus_type_writer_write_basic_no_typecode(strs, writer, type, value, IF fail = 0 THEN 0 ELSE fail - 1)}})

\* number of allocations of the operations when memory suffices
RecurseAllocations(writer, container_type) == IF container_type = DBUS_TYPE_STRUCT \/ ~writer.type_pos_is_expectation THEN 2 ELSE 1

UnrecurseAllocations(sub) == IF sub.container_type = DBUS_TYPE_STRUCT /\ ~sub.type_pos_is_expectation THEN 1 ELSE 0

WriteBasicAllocations(type) == 1 + MarshalAllocations(type)


\* what is left of the allocation count after an operation that made n allocations
Left(fail, n) == IF fail > n THEN fail - n ELSE 0

Copied(ok, strs, writer, fail) == [ok |-> ok, strs |-> strs, writer |-> writer, fail |-> fail]

RECURSIVE WriteReaderLoop(_, _, _, _, _)
RECURSIVE _dbus_type_writer_write_reader_no_rollback(_, _, _, _, _)
RECURSIVE _dbus_type_writer_write_reader(_, _, _, _, _)

\* the while loop of _dbus_type_writer_write_reader from the reader's position
\* on; src holds the strings of the reader, strs those of the writer
WriteReaderLoop(strs, writer, src, reader, fail) ==
  The({IF current_type = DBUS_TYPE_INVALID THEN Copied(TRUE, strs, writer, fail)
       ELSE IF current_type \in {DBUS_TYPE_STRUCT, DBUS_TYPE_VARIANT, DBUS_TYPE_ARRAY}
       THEN The({The({The({IF ~recursed.ok THEN Copied(FALSE, recursed.strs, recursed.writer, 0)
                           ELSE The({IF ~inner.ok THEN Copied(FALSE, inner.strs, recursed.writer, 0)
                                     ELSE The({IF ~closed.ok THEN Copied(FALSE, closed.strs, closed.writer, 0)
                                               ELSE WriteReaderLoop(closed.strs, closed.writer, src, _dbus_type_reader_next(src, reader),
                                                                    Left(inner.fail, UnrecurseAllocations(inner.writer)))
                                               : closed \in {_dbus_type_writer_unrecurse(inner.strs, recursed.writer, inner.writer, inner.fail)}})
                                     : inner \in {_dbus_type_writer_write_reader(recursed.strs, recursed.sub, src, subreader,
                                                                                 Left(fail, RecurseAllocations(writer, current_type)))}})
                           : recursed \in {_dbus_type_writer_recurse_contained_len(strs, writer, current_type,
                                                                                   SubSeq(src[sig.str], sig.start + 1, sig.start + sig.len),
                                                                                   fail)}})
                      : sig \in {_dbus_type_reader_get_signature(src, subreader)}})
                 : subreader \in {_dbus_type_reader_recurse(src, reader)}})
       ELSE The({IF ~basic.ok THEN Copied(FALSE, basic.strs, basic.writer, 0)
                 ELSE WriteReaderLoop(basic.strs, basic.writer, src, _dbus_type_reader_next(src, reader),
                                      Left(fail, WriteBasicAllocations(current_type)))
                 : basic \in {_dbus_type_writer_write_basic(strs, writer, current_type,
                                                            _dbus_type_reader_read_basic(src, reader), fail)}})
       : current_type \in {_dbus_type_reader_get_current_type(src, reader)}})

\* the copy that leaves on a failure what it has written
_dbus_type_writer_write_reader_no_rollback(strs, writer, src, reader, fail) == WriteReaderLoop(strs, writer, src, reader, fail)

_dbus_type_writer_write_reader(strs, writer, src, reader, fail) ==
  LET orig == writer
      orig_type_len == _dbus_string_get_length(strs[writer.type_str])
      orig_value_len == _dbus_string_get_length(strs[writer.value_str])
  IN The({IF done.ok THEN done
          ELSE The({Copied(FALSE,
                           [types EXCEPT ![writer.value_str] =
                              _dbus_string_delete(@, orig.value_pos, _dbus_string_get_length(@) - orig_value_len)],
                           orig, 0)
                    : types \in {IF ~writer.type_pos_is_expectation
                                 THEN [done.strs EXCEPT ![writer.type_str] =
                                         _dbus_string_delete(@, orig.type_pos, _dbus_string_get_length(@) - orig_type_len)]
                                 ELSE done.strs}})
          : done \in {WriteReaderLoop(strs, writer, src, reader, fail)}})


(* ---------------------------------------------------------------------- *)
(* The values that are written and read back (the test nodes of            *)
(* dbus-marshal-recursive.c)                                               *)
(* ---------------------------------------------------------------------- *)

\* deepest nesting of containers of one class around a value
MaxNested == 3

MAX_INITIAL_OFFSET == 9
N_FENCE_BYTES == 5
FENCE_BYTES_STR == <<97, 98, 99, 100, 101>>
VARIANT_SEED == 10
SAMPLE_INT32 == 12345678
SAMPLE_INT32_ALTERNATE == 53781429

TestTypeNodeClass(typecode, subclass_detail) == [typecode |-> typecode, subclass_detail |-> subclass_detail]

int32_class == TestTypeNodeClass(DBUS_TYPE_INT32, 0)
int64_class == TestTypeNodeClass(DBUS_TYPE_INT64, 0)
string_1_class == TestTypeNodeClass(DBUS_TYPE_STRING, 1)
byte_class == TestTypeNodeClass(DBUS_TYPE_BYTE, 0)
signature_class == TestTypeNodeClass(DBUS_TYPE_SIGNATURE, 0)
struct_1_class == TestTypeNodeClass(DBUS_TYPE_STRUCT, 1)
struct_2_class == TestTypeNodeClass(DBUS_TYPE_STRUCT, 2)
array_0_class == TestTypeNodeClass(DBUS_TYPE_ARRAY, 0)
array_1_class == TestTypeNodeClass(DBUS_TYPE_ARRAY, 1)
array_2_class == TestTypeNodeClass(DBUS_TYPE_ARRAY, 2)
variant_class == TestTypeNodeClass(DBUS_TYPE_VARIANT, 0)

basic_nodes == {int32_class, int64_class, byte_class, string_1_class, signature_class}

container_nodes == {struct_1_class, array_1_class, struct_2_class, array_0_class, array_2_class, variant_class}

node_new(klass) == [klass |-> klass, children |-> <<>>]

node_append_child(node, child) == [node EXCEPT !.children = Append(@, child)]

\* the nodes that value_generator hands out: every basic value, and every
\* container that holds one basic value
ContainerOf(container_klass, basic_klass) == node_append_child(node_new(container_klass), node_new(basic_klass))

value_generator ==
  {node_new(b) : b \in basic_nodes} \cup {ContainerOf(c, b) : c \in container_nodes, b \in basic_nodes}

\* the root of n_nested containers of the class around the value
RECURSIVE make_and_run_values_inside_container(_, _, _)
make_and_run_values_inside_container(container_klass, n_nested, child) ==
  IF n_nested = 0 THEN child
  ELSE node_append_child(node_new(container_klass), make_and_run_values_inside_container(container_klass, n_nested - 1, child))

\* the node lists of make_and_run_test_nodes that are written: each value by
\* itself; each value followed by a basic value of the smallest or of the
\* largest alignment; each container that holds each container of a basic
\* value; and such a basic value inside three and more containers of one class
make_and_run_test_nodes ==
  {<<v>> : v \in value_generator}
    \cup {<<v, node_new(b)>> : v \in value_generator, b \in {byte_class, int64_class}}
    \cup {<<make_and_run_values_inside_container(c, 1, ContainerOf(d, b))>> : c \in container_nodes, d \in container_nodes, b \in basic_nodes}
    \cup {<<make_and_run_values_inside_container(c, n, node_new(b))>> : c \in container_nodes, n \in 3..MaxNested, b \in {byte_class, int64_class}}

int32_from_seed(seed) ==
  LET v == CASE seed % 5 = 0 -> SAMPLE_INT32
             [] seed % 5 = 1 -> SAMPLE_INT32_ALTERNATE
             [] seed % 5 = 2 -> 0 - 1
             [] seed % 5 = 3 -> 2147483647
             [] seed % 5 = 4 -> 1
  IN IF seed > 1 THEN v * seed ELSE v

\* the pair <<high word, low word>>
int64_from_seed(seed) == <<int32_from_seed(seed), int32_from_seed(seed) + 1>>

RECURSIVE StringFrom(_, _)
StringFrom(v, len) ==
  IF len = 0 THEN <<>>
  ELSE LET c == IF v < 65 \/ v > 122 THEN 65 ELSE v
       IN <<c>> \o StringFrom((c + 1) % 256, len - 1)

string_from_seed(len, seed) == StringFrom((65 + seed) % 256, len)

signature_from_seed(seed) ==
  CASE seed % 5 = 0 -> <<>>
    [] seed % 5 = 1 -> <<97, 105>>
    [] seed % 5 = 2 -> <<120>>
    [] seed % 5 = 3 -> <<97, 40, 105, 105, 41>>
    [] seed % 5 = 4 -> <<97, 115, 97, 120>>

BYTE_FROM_SEED(seed) == int32_from_seed(seed) % 256

\* the value that the write_value function of the class writes for the seed
ValueFromSeed(klass, seed) ==
  IF klass.typecode = DBUS_TYPE_BYTE THEN BYTE_FROM_SEED(seed)
  ELSE IF klass.typecode = DBUS_TYPE_INT32 THEN int32_from_seed(seed)
  ELSE IF klass.typecode = DBUS_TYPE_INT64 THEN int64_from_seed(seed)
  ELSE IF klass.typecode = DBUS_TYPE_STRING THEN string_from_seed(klass.subclass_detail, seed)
  ELSE signature_from_seed(seed)

RECURSIVE node_build_signature(_)
RECURSIVE BuildChildren(_)
RECURSIVE BuildCopies(_, _)

\* the loops of struct_build_signature over the children and over the copies
BuildChildren(children) ==
  IF children = <<>> THEN <<>> ELSE node_build_signature(Head(children)) \o BuildChildren(Tail(children))

BuildCopies(node, i) ==
  IF i >= node.klass.subclass_detail THEN <<>> ELSE BuildChildren(node.children) \o BuildCopies(node, i + 1)

node_build_signature(node) ==
  IF node.klass.typecode = DBUS_TYPE_STRUCT
  THEN <<DBUS_STRUCT_BEGIN_CHAR>> \o BuildCopies(node, 0) \o <<DBUS_STRUCT_END_CHAR>>
  ELSE IF node.klass.typecode = DBUS_TYPE_ARRAY
  THEN <<DBUS_TYPE_ARRAY>> \o node_build_signature(node.children[1])
  ELSE <<node.klass.typecode>>

WriterOp(op, type, arg) == [op |-> op, type |-> type, arg |-> arg]

RECURSIVE node_write_value(_, _)
RECURSIVE WriteChildren(_, _)
RECURSIVE WriteCopies(_, _)

\* the loops of struct_write_value and array_write_value over the children
\* and over the copies
WriteChildren(children, seed) ==
  IF children = <<>> THEN <<>> ELSE node_write_value(Head(children), seed) \o WriteChildren(Tail(children), seed)

WriteCopies(node, i) ==
  IF i >= node.klass.subclass_detail THEN <<>> ELSE WriteChildren(node.children, i) \o WriteCopies(node, i + 1)

\* the calls of the writer that node_write_value makes for the node, in order
node_write_value(node, seed) ==
  IF node.klass.typecode = DBUS_TYPE_VARIANT
  THEN <<WriterOp("recurse", DBUS_TYPE_VARIANT, node_build_signature(node.children[1]))>>
         \o node_write_value(node.children[1], VARIANT_SEED)
         \o <<WriterOp("unrecurse", DBUS_TYPE_VARIANT, <<>>)>>
  ELSE IF node.klass.typecode \in {DBUS_TYPE_STRUCT, DBUS_TYPE_ARRAY}
  THEN <<WriterOp("recurse", node.klass.typecode,
                  IF node.klass.typecode = DBUS_TYPE_ARRAY THEN node_build_signature(node.children[1]) ELSE <<>>)>>
         \o WriteCopies(node, 0)
         \o <<WriterOp("unrecurse", node.klass.typecode, <<>>)>>
  ELSE <<WriterOp("write_basic", node.klass.typecode, ValueFromSeed(node.klass, seed))>>

\* a value as a reader gives it: a basic value, or the values of a container
Item(type, value, items) == [type |-> type, value |-> value, items |-> items]

RECURSIVE node_read_value(_, _)
RECURSIVE ReadChildren(_, _)
RECURSIVE ReadCopies(_, _)

\* the loops of struct_read_value and array_read_value over the children
\* and over the copies
ReadChildren(children, seed) ==
  IF children = <<>> THEN <<>> ELSE <<node_read_value(Head(children), seed)>> \o ReadChildren(Tail(children), seed)

ReadCopies(node, i) ==
  IF i >= node.klass.subclass_detail THEN <<>> ELSE ReadChildren(node.children, i) \o ReadCopies(node, i + 1)

\* the values that node_read_value expects for the node
node_read_value(node, seed) ==
  IF node.klass.typecode = DBUS_TYPE_VARIANT
  THEN Item(DBUS_TYPE_VARIANT, 0, <<node_read_value(node.children[1], VARIANT_SEED)>>)
  ELSE IF node.klass.typecode \in {DBUS_TYPE_STRUCT, DBUS_TYPE_ARRAY}
  THEN Item(node.klass.typecode, 0, ReadCopies(node, 0))
  ELSE Item(node.klass.typecode, ValueFromSeed(node.klass, seed), <<>>)

\* everything a reader gives from its position to the end of its container
RECURSIVE ReadValues(_, _)
ReadValues(strs, reader) ==
  LET current_type == _dbus_type_reader_get_current_type(strs, reader)
  IN IF current_type = DBUS_TYPE_INVALID THEN <<>>
     ELSE <<IF current_type \in {DBUS_TYPE_STRUCT, DBUS_TYPE_ARRAY, DBUS_TYPE_VARIANT}
            THEN Item(current_type, 0, ReadValues(strs, _dbus_type_reader_recurse(strs, reader)))
            ELSE Item(current_type, _dbus_type_reader_read_basic(strs, reader), <<>>)>>
            \o ReadValues(strs, _dbus_type_reader_next(strs, reader))

\* every reader that recursing and stepping reach from the reader, the
\* readers at the end of their containers included
RECURSIVE Readers(_, _, _)
Readers(strs, reader, in_variant) ==
  LET current_type == _dbus_type_reader_get_current_type(strs, reader)
      here == [reader |-> reader, in_variant |-> in_variant]
  IN IF current_type = DBUS_TYPE_INVALID THEN {here}
     ELSE {here}
            \cup Readers(strs, _dbus_type_reader_next(strs, reader), in_variant)
            \cup (IF current_type \in {DBUS_TYPE_STRUCT, DBUS_TYPE_ARRAY, DBUS_TYPE_VARIANT}
                  THEN Readers(strs, _dbus_type_reader_recurse(strs, reader), in_variant \/ current_type = DBUS_TYPE_VARIANT)
                  ELSE {})

\* the block of a test run: initial_offset nul bytes and the fence in both strings
data_block_init(byte_order, initial_offset) ==
  [kind |-> "block", byte_order |-> byte_order, initial_offset |-> initial_offset,
   signature |-> Nul(initial_offset) \o FENCE_BYTES_STR,
   body |-> Nul(initial_offset) \o FENCE_BYTES_STR]

\* the writer does not end the signature: the caller inserts the nul
WithNul(block) == [block EXCEPT !.signature = _dbus_string_insert_bytes(@, block.initial_offset, <<DBUS_TYPE_INVALID>>)]

Strs(block) == [signature |-> block.signature, body |-> block.body]

\* data_block_init_reader_writer: the writer of a block to which nothing
\* has been written yet, and the reader of a block
BlockWriter(block) ==
  _dbus_type_writer_init(block.byte_order, "signature", _dbus_string_get_length(block.signature) - N_FENCE_BYTES,
                         "body", _dbus_string_get_length(block.body) - N_FENCE_BYTES)

BlockReader(block) ==
  _dbus_type_reader_init(block.byte_order, "signature", block.initial_offset, "body", block.initial_offset)

\* the calls of the writer for the nodes from the i-th of the list on
RECURSIVE WriteNodes(_, _)
WriteNodes(nodes, i) ==
  IF i >= Len(nodes) THEN <<>> ELSE node_write_value(nodes[i + 1], i) \o WriteNodes(nodes, i + 1)

WriterOps(nodes) == WriteNodes(nodes, 0)


\* what a reader finds of every array from its position on, an array after
\* the arrays inside it: the length word, where the elements start and end,
\* and where the reader of the array and the reader that steps over it stop
RECURSIVE ReadArrays(_, _)
ReadArrays(strs, reader) ==
  The({IF current_type = DBUS_TYPE_INVALID THEN <<>>
       ELSE (IF current_type \in {DBUS_TYPE_STRUCT, DBUS_TYPE_ARRAY, DBUS_TYPE_VARIANT}
             THEN The({ReadArrays(strs, sub)
                         \o (IF current_type = DBUS_TYPE_ARRAY
                             THEN <<[len |-> array_reader_get_array_len(strs, sub),
                                     array_len_offset |-> sub.array_len_offset,
                                     start_pos |-> sub.start_pos,
                                     recursed_at |-> sub.value_pos,
                                     ends_at |-> ReaderAtEnd(strs, sub).value_pos,
                                     skipped_to |-> _dbus_type_reader_next(strs, reader).value_pos]>>
                             ELSE <<>>)
                       : sub \in {_dbus_type_reader_recurse(strs, reader)}})
             ELSE <<>>)
              \o ReadArrays(strs, _dbus_type_reader_next(strs, reader))
       : current_type \in {_dbus_type_reader_get_current_type(strs, reader)}})

(* ---------------------------------------------------------------------- *)
(* A run of the codec: a block is set up, the nodes are written call by    *)
(* call, an allocation of a call may fail, and the block is then read,     *)
(* copied, or read from a mark                                             *)
(* ---------------------------------------------------------------------- *)

InitCodec ==
  /\ InitBus(0, <<>>)
  /\ NoReferences
  /\ \E byte_order \in {DBUS_LITTLE_ENDIAN, DBUS_BIG_ENDIAN}, initial_offset \in 0..MAX_INITIAL_OFFSET :
       /\ data_block = WithNul(data_block_init(byte_order, initial_offset))
       /\ writers = <<BlockWriter(data_block_init(byte_order, initial_offset))>>
  /\ test_nodes \in make_and_run_test_nodes
  /\ n_written = 0
  /\ wop = [op |-> "none"]
  /\ outcome = [kind |-> "none"]

\* allocations that the call makes when none of them fails
OpAllocations(op, writer) ==
  IF op.op = "recurse" THEN RecurseAllocations(writer, op.type)
  ELSE IF op.op = "unrecurse" THEN UnrecurseAllocations(writer)
  ELSE WriteBasicAllocations(op.type)

\* the arrays closed so far, with the one that the call has closed
ArraysClosed(op, done) ==
  LET closed == IF wop.op = "none" THEN <<>> ELSE wop.arrays
  IN IF done.ok /\ op.op = "unrecurse" /\ op.type = DBUS_TYPE_ARRAY
     THEN Append(closed, [len_pos |-> done.sub.len_pos, start_pos |-> done.sub.start_pos, value_pos |-> done.sub.value_pos])
     ELSE closed

\* the next call of node_write_value on the innermost open writer; the
\* run of the nodes is over when a call returns FALSE
WriterOperation ==
  /\ data_block.kind = "block"
  /\ outcome.kind = "none"
  /\ wop.op # "none" => wop.ok
  /\ n_written < Len(WriterOps(test_nodes))
  /\ \E op \in {WriterOps(test_nodes)[n_written + 1]} :
     \E fail \in 0..OpAllocations(op, writers[Len(writers)]) :
     \E done \in {IF op.op = "recurse"
                  THEN _dbus_type_writer_recurse(Strs(data_block), writers[Len(writers)], op.type, op.arg, fail)
                  ELSE IF op.op = "unrecurse"
                  THEN _dbus_type_writer_unrecurse(Strs(data_block), writers[Len(writers) - 1], writers[Len(writers)], fail)
                  ELSE _dbus_type_writer_write_basic(Strs(data_block), writers[Len(writers)], op.type, op.arg, fail)} :
       /\ data_block' = [data_block EXCEPT !.signature = done.strs.signature, !.body = done.strs.body]
       /\ writers' = IF op.op = "unrecurse"
                     THEN IF done.ok THEN Append(SubSeq(writers, 1, Len(writers) - 2), done.writer)
                          ELSE SubSeq(writers, 1, Len(writers) - 2) \o <<done.writer, done.sub>>
                     ELSE IF op.op = "recurse" /\ done.ok
                     THEN SubSeq(writers, 1, Len(writers) - 1) \o <<done.writer, done.sub>>
                     ELSE Append(SubSeq(writers, 1, Len(writers) - 1), done.writer)
       /\ n_written' = IF done.ok THEN n_written + 1 ELSE n_written
       /\ wop' = [op |-> op.op, type |-> op.type, arg |-> op.arg, ok |-> done.ok, fail |-> fail,
                  strs |-> Strs(data_block),
                  writer |-> IF op.op = "unrecurse" THEN writers[Len(writers) - 1] ELSE writers[Len(writers)],
                  sub |-> IF op.op = "unrecurse" THEN writers[Len(writers)] ELSE done.sub,
                  after |-> done.writer,
                  sub_after |-> done.sub,
                  arrays |-> ArraysClosed(op, done)]
  /\ UNCHANGED <<test_nodes, outcome>>
  /\ UNCHANGED <<bus_vars, need_dispatch, loop_vars, ref_vars>>

\* every node is written and every container is closed
Written_all == data_block.kind = "block" /\ n_written = Len(WriterOps(test_nodes)) /\ outcome.kind = "none"

\* run_test_nodes_iteration reads the block with a reader
ReadBlock ==
  /\ Written_all
  /\ outcome' = [kind |-> "read",
                 values |-> ReadValues(Strs(data_block), BlockReader(data_block)),
                 arrays |-> ReadArrays(Strs(data_block), BlockReader(data_block))]
  /\ UNCHANGED <<data_block, test_nodes, n_written, writers, wop>>
  /\ UNCHANGED <<bus_vars, need_dispatch, loop_vars, ref_vars>>

\* the number of allocations of the copy when none of them fails
CopyAllocations(dest, src) ==
  LET most == 3 * Len(WriterOps(test_nodes)) + 1
  IN most - _dbus_type_writer_write_reader(Strs(WithNul(dest)), BlockWriter(dest), Strs(src), BlockReader(src), most).fail

\* run_test_copy: the block is copied into a fresh block through
\* _dbus_type_writer_write_reader, and one of its allocations may fail
run_test_copy ==
  /\ Written_all
  /\ \E dest \in {data_block_init(data_block.byte_order, data_block.initial_offset)} :
     \E fail \in 0..CopyAllocations(dest, data_block) :
     \E copied \in {_dbus_type_writer_write_reader(Strs(WithNul(dest)), BlockWriter(dest),
                                                   Strs(data_block), BlockReader(data_block), fail)} :
       outcome' = [kind |-> "copy", ok |-> copied.ok, fail |-> fail,
                   before |-> Strs(WithNul(dest)), writer |-> BlockWriter(dest),
                   strs |-> copied.strs, after |-> copied.writer]
  /\ UNCHANGED <<data_block, test_nodes, n_written, writers, wop>>
  /\ UNCHANGED <<bus_vars, need_dispatch, loop_vars, ref_vars>>

\* what a reader shows from its position on
Shown(strs, reader) ==
  [current_type |-> _dbus_type_reader_get_current_type(strs, reader),
   values |-> ReadValues(strs, reader),
   has_next |-> _dbus_type_reader_get_current_type(strs, _dbus_type_reader_next(strs, reader)) # DBUS_TYPE_INVALID]

\* a reader anywhere in the block saves a mark, and a second reader is
\* initialised from the mark with the strings of the block
SaveAndRestoreMark ==
  /\ Written_all
  /\ \E at \in Readers(Strs(data_block), BlockReader(data_block), FALSE) :
     \E reader \in {at.reader} :
     \E mark \in {_dbus_type_reader_save_mark(reader)} :
     \E restored \in {_dbus_type_reader_init_from_mark(reader.byte_order, "signature", "body", mark)} :
       outcome' = [kind |-> "mark", reader |-> reader, in_variant |-> at.in_variant,
                   mark |-> mark, restored |-> restored,
                   shown |-> Shown(Strs(data_block), reader),
                   restored_shown |-> Shown(Strs(data_block), restored)]
  /\ UNCHANGED <<data_block, test_nodes, n_written, writers, wop>>
  /\ UNCHANGED <<bus_vars, need_dispatch, loop_vars, ref_vars>>

\* the values that the nodes of the run hold, in the order of the nodes
RECURSIVE ReadNodes(_, _)
ReadNodes(nodes, i) ==
  IF i >= Len(nodes) THEN <<>> ELSE <<node_read_value(nodes[i + 1], i)>> \o ReadNodes(nodes, i + 1)

\* the reader at the start of a container that holds the items, and the
\* reader at the start of every container below it
RECURSIVE ContainerReaders(_, _, _)
RECURSIVE ReadersBelow(_, _, _)
ContainerReaders(strs, reader, items) == {[reader |-> reader, n |-> Len(items)]} \cup ReadersBelow(strs, reader, items)

ReadersBelow(strs, reader, items) ==
  IF items = <<>> THEN {}
  ELSE (IF Head(items).type \in {DBUS_TYPE_STRUCT, DBUS_TYPE_ARRAY, DBUS_TYPE_VARIANT}
        THEN ContainerReaders(strs, _dbus_type_reader_recurse(strs, reader), Head(items).items)
        ELSE {})
         \cup ReadersBelow(strs, _dbus_type_reader_next(strs, reader), Tail(items))

\* k calls of _dbus_type_reader_next in a row: what each call returned, the
\* reader it left and the current type of that reader
RECURSIVE NextCalls(_, _, _)
NextCalls(strs, reader, k) ==
  IF k = 0 THEN <<>>
  ELSE The({<<[returned |-> _dbus_type_reader_get_current_type(strs, after) # DBUS_TYPE_INVALID,
               reader |-> after,
               current_type |-> _dbus_type_reader_get_current_type(strs, after)]>>
              \o NextCalls(strs, after, k - 1)
            : after \in {_dbus_type_reader_next(strs, reader)}})

\* the loops of the read_value functions (NEXT_EXPECTING_TRUE,
\* NEXT_EXPECTING_FALSE): a reader at the start of the block or of a container
\* in it is stepped to the end of the container and two calls further
NextToEnd ==
  /\ Written_all
  /\ \E at \in ContainerReaders(Strs(data_block), BlockReader(data_block), ReadNodes(test_nodes, 0)) :
       outcome' = [kind |-> "next", reader |-> at.reader, n |-> at.n,
                   calls |-> NextCalls(Strs(data_block), at.reader, at.n + 2)]
  /\ UNCHANGED <<data_block, test_nodes, n_written, writers, wop>>
  /\ UNCHANGED <<bus_vars, need_dispatch, loop_vars, ref_vars>>

NextCodec == WriterOperation \/ ReadBlock \/ run_test_copy \/ SaveAndRestoreMark \/ NextToEnd

SpecCodec == InitCodec /\ [][NextCodec]_vars


ExpectedValues == ReadNodes(test_nodes, 0)

\* C21: for every signature of the nodes (basic types, nested structs,
\* arrays of arrays, variants), both byte orders and every initial offset
\* 0..9, the reader reads back the values that the writer wrote, in the same
\* order.
C21_RoundTrip == outcome.kind = "read" => outcome.values = ExpectedValues

\* an array of arrays of 64 bit values has been read back from a big endian
\* block that starts at offset 9
C21_Witness ==
  /\ outcome.kind = "read"
  /\ data_block.byte_order = DBUS_BIG_ENDIAN
  /\ data_block.initial_offset = MAX_INITIAL_OFFSET
  /\ Len(outcome.values) = 1
  /\ outcome.values[1].type = DBUS_TYPE_ARRAY
  /\ Len(outcome.values[1].items) = 2
  /\ outcome.values[1].items[1].type = DBUS_TYPE_ARRAY
  /\ Len(outcome.values[1].items[1].items) = 2
  /\ outcome.values[1].items[1].items[2].type = DBUS_TYPE_INT64
  /\ outcome.values[1].items[1].items[2].value = int64_from_seed(1)


\* the alignment of a type as the table of alignments gives it
TableAlignment(type) ==
  CASE type \in {DBUS_TYPE_BYTE, DBUS_TYPE_BOOLEAN, DBUS_TYPE_VARIANT, DBUS_TYPE_SIGNATURE} -> 1
    [] type \in {DBUS_TYPE_INT32, DBUS_TYPE_UINT32, DBUS_TYPE_STRING, DBUS_TYPE_OBJECT_PATH, DBUS_TYPE_ARRAY} -> 4
    [] type \in {DBUS_TYPE_INT64, DBUS_TYPE_UINT64, DBUS_TYPE_DOUBLE, DBUS_TYPE_STRUCT, DBUS_STRUCT_BEGIN_CHAR} -> 8

\* the smallest offset that is not below prev_end and is a multiple of the alignment
SmallestAligned(prev_end, alignment) ==
  CHOOSE offset \in prev_end..prev_end + alignment - 1 : offset % alignment = 0

\* the bytes that a basic value takes
EncodedLength(type, value) ==
  CASE type \in OctetTypes1 -> 1
    [] type \in OctetTypes4 -> 4
    [] type \in OctetTypes8 -> 8
    [] type \in StringTypes -> 4 + Len(value) + 1
    [] type = DBUS_TYPE_SIGNATURE -> 1 + Len(value) + 1

\* a call of the writer has returned TRUE
Wrote(op) == wop.op = op /\ wop.ok

\* the basic value just written starts at the aligned offset, behind nul
\* bytes, and the body has grown by the padding and the value
BasicAligned ==
  Wrote("write_basic") =>
    LET start == wop.after.value_pos - EncodedLength(wop.type, wop.arg)
    IN /\ start = SmallestAligned(wop.writer.value_pos, TableAlignment(wop.type))
       /\ \A p \in wop.writer.value_pos..start - 1 : Peek(data_block.body, p) = 0
       /\ Len(data_block.body) - Len(wop.strs.body) = wop.after.value_pos - wop.writer.value_pos

StructAligned ==
  (Wrote("recurse") /\ wop.type = DBUS_TYPE_STRUCT) => wop.sub_after.value_pos = SmallestAligned(wop.writer.value_pos, 8)

\* the length word of the array and its first element
ArrayAligned ==
  (Wrote("recurse") /\ wop.type = DBUS_TYPE_ARRAY) =>
    /\ wop.sub_after.len_pos = SmallestAligned(wop.writer.value_pos, TableAlignment(DBUS_TYPE_ARRAY))
    /\ wop.sub_after.start_pos = SmallestAligned(wop.sub_after.len_pos + 4, TableAlignment(wop.arg[1]))
    /\ wop.sub_after.value_pos = wop.sub_after.start_pos

\* the variant starts with the length of its signature where the previous
\* field ends
VariantAligned ==
  (Wrote("recurse") /\ wop.type = DBUS_TYPE_VARIANT) =>
    /\ Peek(data_block.body, wop.writer.value_pos) = Len(wop.arg)
    /\ SubSeq(data_block.body, wop.writer.value_pos + 2, wop.writer.value_pos + 2 + Len(wop.arg)) = wop.arg \o <<0>>

\* where the signature of the variant just entered ends
VariantSignatureEnd == wop.writer.value_pos + 1 + Len(wop.arg) + 1

\* C22 as stated: after any sequence of writer operations every encoded
\* field (basic value, array length word, first array element, struct
\* start, variant content) starts at the smallest offset that is not below
\* the end of the previous field and is a multiple of the alignment of the
\* field: 1 for byte, bool, variant and signature, 4 for int32, uint32,
\* string, object path and array, 8 for int64, uint64, double and struct.
C22_Original ==
  /\ BasicAligned /\ StructAligned /\ ArrayAligned /\ VariantAligned
  /\ (Wrote("recurse") /\ wop.type = DBUS_TYPE_VARIANT) =>
       wop.sub_after.value_pos = SmallestAligned(VariantSignatureEnd, TableAlignment(wop.arg[1]))

\* C22: every encoded field starts at the smallest offset that is not below
\* the end of the previous field and is a multiple of its alignment (1 for
\* byte, bool, variant and signature, 4 for int32, uint32, string, object
\* path and array, 8 for int64, uint64, double and struct), and the content
\* of a variant starts at the smallest multiple of 8 that is not below the
\* end of the signature of the variant, whatever its type.
C22_Alignment ==
  /\ BasicAligned /\ StructAligned /\ ArrayAligned /\ VariantAligned
  /\ (Wrote("recurse") /\ wop.type = DBUS_TYPE_VARIANT) =>
       wop.sub_after.value_pos = SmallestAligned(VariantSignatureEnd, 8)

\* a variant that holds a byte has been entered and its content is padded
\* to the next multiple of 8
C22_Witness ==
  /\ Wrote("recurse") /\ wop.type = DBUS_TYPE_VARIANT
  /\ wop.arg = <<DBUS_TYPE_BYTE>>
  /\ wop.sub_after.value_pos > VariantSignatureEnd


\* C23: for a block produced by the writer, walking it with a reader and
\* copying the values with write_reader into a fresh block of the same byte
\* order and initial offset gives the same signature and the same body byte
\* for byte, empty arrays, nested arrays and variants included.
C23_CopyIdentical ==
  (outcome.kind = "copy" /\ outcome.ok) => outcome.strs = Strs(data_block)

\* an array that holds an empty array and a variant holding an int64 have
\* been copied into a block that started at an odd offset
C23_Witness ==
  /\ outcome.kind = "copy" /\ outcome.ok
  /\ data_block.initial_offset = 3
  /\ \/ test_nodes = <<make_and_run_values_inside_container(array_1_class, 1, ContainerOf(array_0_class, int32_class))>>
     \/ test_nodes = <<make_and_run_values_inside_container(array_2_class, 1, ContainerOf(variant_class, int64_class))>>


\* the mark records that the types lie in the value string exactly for
\* the readers below a variant
MarkNamesTypeString == outcome.kind = "mark" => (outcome.mark.type_pos_in_value_str <=> outcome.in_variant)

\* C24: for a reader at any position and of any class (body, struct, array,
\* variant), save_mark followed by init_from_mark with the same type and
\* value strings gives a reader that shows the same current type, the same
\* values and the same end of container as the original reader from its
\* position on; the mark records that the types lie in the value string
\* exactly for readers inside a variant.
C24_Original ==
  /\ outcome.kind = "mark" => outcome.restored_shown = outcome.shown
  /\ MarkNamesTypeString

\* what holds of the code: the restored reader shows what the original shows
\* unless the original has been moved past the last value of a struct
MarkOfUnfinished ==
  /\ (outcome.kind = "mark" /\ ~outcome.reader.finished) => outcome.restored_shown = outcome.shown
  /\ MarkNamesTypeString


\* C25: when write_reader fails at any allocation, at any nesting depth, the
\* type string and the value string of the writer have their lengths and
\* contents of before the call and the writer equals its snapshot of before
\* the call.
C25_CopyRollback ==
  (outcome.kind = "copy" /\ ~outcome.ok) => (outcome.strs = outcome.before /\ outcome.after = outcome.writer)

\* the copy failed below two containers, after values had been written
C25_Witness ==
  /\ outcome.kind = "copy" /\ ~outcome.ok
  /\ outcome.fail >= 5
  /\ Len(test_nodes) = 1 /\ test_nodes[1].klass.typecode \in {DBUS_TYPE_ARRAY, DBUS_TYPE_VARIANT}
  /\ Len(test_nodes[1].children) = 1 /\ test_nodes[1].children[1].klass.typecode = DBUS_TYPE_ARRAY


\* C26: every writer operation that returns FALSE (recurse into a struct, an
\* array or a variant, write_basic, unrecurse) leaves the type string, the
\* value string and the parent writer as they were before the call.
C26_FailedOperation ==
  (wop.op # "none" /\ ~wop.ok) => (Strs(data_block) = wop.strs /\ wop.after = wop.writer)

\* the recursion into an outermost array has failed at its second
\* allocation, the one of the type string
C26_Witness ==
  /\ wop.op = "recurse" /\ wop.type = DBUS_TYPE_ARRAY /\ ~wop.ok /\ wop.fail = 2
  /\ ~wop.writer.type_pos_is_expectation


\* the unsigned number that the four bytes at position pos stand for
LengthWord(str, pos, order) ==
  IF order = DBUS_BIG_ENDIAN
  THEN ((Peek(str, pos) * 256 + Peek(str, pos + 1)) * 256 + Peek(str, pos + 2)) * 256 + Peek(str, pos + 3)
  ELSE ((Peek(str, pos + 3) * 256 + Peek(str, pos + 2)) * 256 + Peek(str, pos + 1)) * 256 + Peek(str, pos)

\* what the reader has found of the n-th array agrees with what the writer
\* had when it closed the array
ArrayAsWritten(read, written) ==
  /\ LengthWord(data_block.body, written.len_pos, data_block.byte_order) = written.value_pos - written.start_pos
  /\ read.len = written.value_pos - written.start_pos
  /\ read.start_pos = written.start_pos
  /\ read.array_len_offset = written.start_pos - (written.len_pos + 4)
  /\ read.array_len_offset \in 0..7
  /\ read.recursed_at = read.start_pos
  /\ read.ends_at = read.start_pos + read.len

\* C27: for every array closed with unrecurse the length word holds
\* value_pos - start_pos (the bytes of the elements without the padding
\* before the first); a reader that recurses into the array records
\* array_len_offset = start_pos - end of the length word, between 0 and 7,
\* reads the length word again through it, and is at the end of the array
\* exactly when its value position is start_pos + length.
C27_ArrayLength ==
  /\ (Wrote("unrecurse") /\ wop.type = DBUS_TYPE_ARRAY) =>
       LengthWord(data_block.body, wop.sub.len_pos, data_block.byte_order) = wop.sub.value_pos - wop.sub.start_pos
  /\ outcome.kind = "read" =>
       /\ Len(outcome.arrays) = Len(wop.arrays)
       /\ \A n \in 1..Len(outcome.arrays) : ArrayAsWritten(outcome.arrays[n], wop.arrays[n])

\* an array of two arrays of int64 written at an odd offset has been read:
\* the elements start four bytes behind a length word
C27_Witness ==
  /\ outcome.kind = "read"
  /\ Len(outcome.arrays) = 3
  /\ outcome.arrays[3].array_len_offset = 0 /\ outcome.arrays[1].array_len_offset = 4
  /\ outcome.arrays[1].len = 16 /\ outcome.arrays[3].len > 32


\* the arrays without elements among the arrays the reader has found
EmptyArrays == {n \in 1..Len(outcome.arrays) : outcome.arrays[n].len = 0}

\* C28: the writer pads to the alignment of the element type behind the
\* length word even when the array has no element, and the reader, whether
\* it recurses into the array or steps over it, moves past that padding, so
\* that the value behind an empty array is read where it was written, for
\* every element type.
C28_EmptyArray ==
  /\ (Wrote("recurse") /\ wop.type = DBUS_TYPE_ARRAY) =>
       /\ wop.sub_after.start_pos = SmallestAligned(wop.sub_after.len_pos + 4, TableAlignment(wop.arg[1]))
       /\ Len(data_block.body) - N_FENCE_BYTES = wop.sub_after.start_pos
  /\ outcome.kind = "read" =>
       /\ Len(outcome.arrays) = Len(wop.arrays)
       /\ \A n \in EmptyArrays :
            /\ wop.arrays[n].value_pos = wop.arrays[n].start_pos
            /\ outcome.arrays[n].recursed_at = wop.arrays[n].value_pos
            /\ outcome.arrays[n].ends_at = wop.arrays[n].value_pos
            /\ outcome.arrays[n].skipped_to = wop.arrays[n].value_pos
       /\ outcome.values = ExpectedValues

\* an empty array of int64 whose length word ends at an odd multiple of 4
\* has been read, and an int64 behind it
C28_Witness ==
  /\ outcome.kind = "read"
  /\ \E n \in EmptyArrays : outcome.arrays[n].array_len_offset = 4
  /\ Len(test_nodes) = 2 /\ test_nodes[1].klass = array_0_class /\ test_nodes[2].klass = int64_class


\* the n-th open writer is the writer of an array or of a variant, or lies
\* inside one
InsideArrayOrVariant(n) == \E k \in 1..n : writers[k].container_type \in {DBUS_TYPE_ARRAY, DBUS_TYPE_VARIANT}

\* the signatures of the nodes one after the other
RECURSIVE SignatureOf(_)
SignatureOf(nodes) == IF nodes = <<>> THEN <<>> ELSE node_build_signature(Head(nodes)) \o SignatureOf(Tail(nodes))

\* the writer that the last call has written with
Operating == IF wop.op = "unrecurse" THEN wop.sub ELSE wop.writer

\* C29: a writer inside an array or a variant, at any depth below it, never
\* inserts a typecode into the type string: the element signature of an
\* array is written once, when the outermost array is entered, so the
\* signature that the writer produces is the signature of the values
\* written whatever the number of array elements; the expectation flag,
\* once set on a writer, is set on every writer recursed from it.
C29_NoTypecodeInside ==
  /\ \A n \in 1..Len(writers) : writers[n].type_pos_is_expectation <=> InsideArrayOrVariant(n)
  /\ \A n \in 1..Len(writers), k \in 1..Len(writers) :
       (n < k /\ writers[n].type_pos_is_expectation) => writers[k].type_pos_is_expectation
  /\ (wop.op # "none" /\ Operating.type_pos_is_expectation) => data_block.signature = wop.strs.signature
  /\ (Wrote("recurse") /\ wop.type = DBUS_TYPE_ARRAY /\ ~wop.writer.type_pos_is_expectation) =>
       data_block.signature = _dbus_string_insert_bytes(wop.strs.signature, wop.writer.type_pos, <<DBUS_TYPE_ARRAY>> \o wop.arg)
  /\ Written_all =>
       data_block.signature = Nul(data_block.initial_offset) \o SignatureOf(test_nodes) \o <<0>> \o FENCE_BYTES_STR

\* the second element of an array of structs is being written: a value has
\* gone into a struct inside the array and the type string has not grown
C29_Witness ==
  /\ Wrote("write_basic")
  /\ Len(writers) = 3
  /\ writers[2].container_type = DBUS_TYPE_ARRAY /\ writers[3].container_type = DBUS_TYPE_STRUCT
  /\ writers[2].value_pos > writers[2].start_pos
  /\ Len(data_block.body) > Len(wop.strs.body)


(* ---------------------------------------------------------------------- *)
(* Decoding one basic value from a buffer of any content, at any position  *)
(* (dbus-marshal-basic.c, _dbus_demarshal_basic_type and                   *)
(* _dbus_marshal_skip_basic_type)                                          *)
(* ---------------------------------------------------------------------- *)

\* longest buffer that is decoded
MaxBuffer == 8

\* the bytes a buffer is made of, and the bytes that may lie behind it
BufferBytes == {0, 1}

Buffers == UNION {[1..n -> BufferBytes] : n \in 0..MaxBuffer}

DecodedTypes == {DBUS_TYPE_BYTE, DBUS_TYPE_INT32, DBUS_TYPE_INT64, DBUS_TYPE_STRING, DBUS_TYPE_SIGNATURE}

\* the bytes of the buffer followed by what lies behind them in memory
Memory(str, behind) == str \o [k \in 1..16 |-> behind]

\* where the bytes end that decoding the type at pos reads: the value of
\* fixed size, or the length of a string or signature (the bytes it
\* announces are pointed at, not read)
ReadEnd(mem, type, order, pos) ==
  IF type \in OctetTypes1 \cup OctetTypes4 \cup OctetTypes8 THEN _dbus_marshal_skip_basic_type(mem, type, order, pos)
  ELSE IF type \in StringTypes THEN _DBUS_ALIGN_VALUE(pos, 4) + 4
  ELSE pos + 1

InitDemarshal ==
  /\ InitBus(0, <<>>)
  /\ NoReferences
  /\ \E str \in Buffers, order \in {DBUS_LITTLE_ENDIAN, DBUS_BIG_ENDIAN} :
       data_block = [kind |-> "buffer", byte_order |-> order, str |-> str]
  /\ test_nodes = <<>>
  /\ n_written = 0
  /\ writers = <<>>
  /\ wop = [op |-> "none"]
  /\ outcome = [kind |-> "none"]

\* _dbus_demarshal_basic_type (str, type, &value, byte_order, pos, &new_pos):
\* the function returns nothing; what it reads behind the end of the buffer
\* is whatever the memory holds there, unless the read stops the process
DemarshalBasic ==
  /\ data_block.kind = "buffer"
  /\ outcome.kind = "none"
  /\ \E type \in DecodedTypes, pos \in 0..Len(data_block.str), behind \in BufferBytes, stopped \in BOOLEAN :
     \E mem \in {Memory(data_block.str, behind)} :
     \E got \in {_dbus_demarshal_basic_type(mem, type, data_block.byte_order, pos)} :
       /\ stopped => ReadEnd(mem, type, data_block.byte_order, pos) > Len(data_block.str)
       /\ outcome' = IF stopped
                     THEN [kind |-> "stopped", op |-> "demarshal", type |-> type, pos |-> pos]
                     ELSE [kind |-> "returned", op |-> "demarshal", type |-> type, pos |-> pos, returns |-> "void",
                           value |-> got.value, new_pos |-> got.new_pos, str |-> data_block.str]
  /\ UNCHANGED <<data_block, test_nodes, n_written, writers, wop>>
  /\ UNCHANGED <<bus_vars, need_dispatch, loop_vars, ref_vars>>

\* _dbus_marshal_skip_basic_type (str, type, byte_order, &pos)
SkipBasic ==
  /\ data_block.kind = "buffer"
  /\ outcome.kind = "none"
  /\ \E type \in DecodedTypes, pos \in 0..Len(data_block.str), behind \in BufferBytes, stopped \in BOOLEAN :
     \E mem \in {Memory(data_block.str, behind)} :
     \E new_pos \in {_dbus_marshal_skip_basic_type(mem, type, data_block.byte_order, pos)} :
       /\ stopped => (type \in StringTypes \cup {DBUS_TYPE_SIGNATURE}
                        /\ ReadEnd(mem, type, data_block.byte_order, pos) > Len(data_block.str))
       /\ outcome' = IF stopped
                     THEN [kind |-> "stopped", op |-> "skip", type |-> type, pos |-> pos]
                     ELSE [kind |-> "returned", op |-> "skip", type |-> type, pos |-> pos, returns |-> "void",
                           new_pos |-> new_pos, str |-> data_block.str]
  /\ UNCHANGED <<data_block, test_nodes, n_written, writers, wop>>
  /\ UNCHANGED <<bus_vars, need_dispatch, loop_vars, ref_vars>>

NextDemarshal == DemarshalBasic \/ SkipBasic

SpecDemarshal == InitDemarshal /\ [][NextDemarshal]_vars

\* the value at pos, its length word or the length it declares extends
\* past the end of the buffer
Truncated(str, type, order, pos) ==
  LET aligned == SmallestAligned(pos, TableAlignment(type))
  IN CASE type \in OctetTypes1 -> pos + 1 > Len(str)
       [] type \in OctetTypes4 -> aligned + 4 > Len(str)
       [] type \in OctetTypes8 -> aligned + 8 > Len(str)
       [] type \in StringTypes -> \/ aligned + 4 > Len(str)
                                  \/ aligned + 4 + LengthWord(str, aligned, order) + 1 > Len(str)
       [] type = DBUS_TYPE_SIGNATURE -> \/ pos + 1 > Len(str)
                                        \/ pos + 1 + Peek(str, pos) + 1 > Len(str)

Misaligned(type, pos) == pos % TableAlignment(type) # 0

\* C30: decoding a basic value from a buffer that is truncated (the value,
\* its length word or the length it declares extends past the end of the
\* buffer) or misaligned yields a decode failure that is reported to the
\* caller, and the failed decode changes nothing.
C30_Original ==
  (outcome.kind \in {"returned", "stopped"}
     /\ (Truncated(data_block.str, outcome.type, data_block.byte_order, outcome.pos) \/ Misaligned(outcome.type, outcome.pos))) =>
    /\ outcome.kind = "returned"
    /\ outcome.returns = "decode-failure"
    /\ outcome.str = data_block.str

\* what holds of the code: a decode that returns has told the caller
\* nothing, has moved the position to the aligned end of what it took for
\* the value, and has left the buffer as it was
DecodeReportsNothing ==
  outcome.kind = "returned" =>
    /\ outcome.returns = "void"
    /\ outcome.str = data_block.str
    /\ outcome.new_pos > outcome.pos
    /\ outcome.type = DBUS_TYPE_INT32 => outcome.new_pos = SmallestAligned(outcome.pos, 4) + 4
    /\ outcome.type = DBUS_TYPE_INT64 => outcome.new_pos = SmallestAligned(outcome.pos, 8) + 8

(* ---------------------------------------------------------------------- *)
(* One basic value is encoded into a string and then decoded or skipped    *)
(* (dbus-marshal-basic.c, _dbus_marshal_basic_type,                        *)
(* _dbus_demarshal_basic_type and _dbus_marshal_skip_basic_type)           *)
(* ---------------------------------------------------------------------- *)

MarshalledTypes == {DBUS_TYPE_BYTE, DBUS_TYPE_BOOLEAN, DBUS_TYPE_INT32, DBUS_TYPE_INT64,
                    DBUS_TYPE_STRING, DBUS_TYPE_OBJECT_PATH, DBUS_TYPE_SIGNATURE}

\* values of the type; a string is the sequence of its bytes without the nul
MarshalledValues(type) ==
  CASE type = DBUS_TYPE_BYTE -> {0, 255}
    [] type = DBUS_TYPE_BOOLEAN -> {0, 1}
    [] type = DBUS_TYPE_INT32 -> {0, 42, 0 - 1, SAMPLE_INT32}
    [] type = DBUS_TYPE_INT64 -> {<<0, 42>>, <<SAMPLE_INT32, 1>>, <<0 - 1, 0 - 1>>}
    [] type = DBUS_TYPE_STRING -> {<<>>, <<104, 105>>}
    [] type = DBUS_TYPE_OBJECT_PATH -> {<<47>>, <<47, 97, 47, 98>>}
    [] type = DBUS_TYPE_SIGNATURE -> {<<>>, <<105>>, <<97, 105>>}

\* a string of nul bytes, the value that is encoded into it and the byte
\* order it is encoded in
InitMarshal ==
  /\ InitBus(0, <<>>)
  /\ NoReferences
  /\ \E order \in {DBUS_LITTLE_ENDIAN, DBUS_BIG_ENDIAN}, len \in 0..MAX_INITIAL_OFFSET :
       data_block = [kind |-> "string", byte_order |-> order, str |-> Nul(len)]
  /\ \E type \in MarshalledTypes : \E value \in MarshalledValues(type) :
       test_nodes = <<[type |-> type, value |-> value]>>
  /\ n_written = 0
  /\ writers = <<>>
  /\ wop = [op |-> "none"]
  /\ outcome = [kind |-> "none"]

\* _dbus_marshal_basic_type (str, insert_at, type, value, byte_order, &pos_after);
\* one of its allocations may fail
MarshalBasic ==
  /\ data_block.kind = "string"
  /\ wop.op = "none"
  /\ \E insert_at \in 0..Len(data_block.str), fail \in 0..MarshalAllocations(test_nodes[1].type) :
     \E m \in {_dbus_marshal_basic_type(data_block.str, insert_at, test_nodes[1].type, test_nodes[1].value,
                                        data_block.byte_order, fail)} :
       /\ data_block' = [data_block EXCEPT !.str = m.str]
       /\ n_written' = IF m.ok THEN 1 ELSE 0
       /\ wop' = [op |-> "marshal", ok |-> m.ok, fail |-> fail, type |-> test_nodes[1].type,
                  value |-> test_nodes[1].value, str |-> data_block.str,
                  insert_at |-> insert_at, pos_after |-> m.pos_after]
  /\ UNCHANGED <<test_nodes, writers, outcome>>
  /\ UNCHANGED <<bus_vars, need_dispatch, loop_vars, ref_vars>>

\* _dbus_demarshal_basic_type of the value where it was inserted, with the
\* byte order the caller names: the one of the encoding or the other one
DemarshalMarshalled ==
  /\ wop.op = "marshal" /\ wop.ok
  /\ outcome.kind = "none"
  /\ \E byte_order \in {DBUS_LITTLE_ENDIAN, DBUS_BIG_ENDIAN} :
     \E got \in {_dbus_demarshal_basic_type(data_block.str, wop.type, byte_order, wop.insert_at)} :
       outcome' = [kind |-> "demarshal", byte_order |-> byte_order, value |-> got.value, new_pos |-> got.new_pos]
  /\ UNCHANGED <<data_block, test_nodes, n_written, writers, wop>>
  /\ UNCHANGED <<bus_vars, need_dispatch, loop_vars, ref_vars>>

\* _dbus_marshal_skip_basic_type from where the value was inserted
SkipMarshalled ==
  /\ wop.op = "marshal" /\ wop.ok
  /\ outcome.kind = "none"
  /\ \E byte_order \in {DBUS_LITTLE_ENDIAN, DBUS_BIG_ENDIAN} :
       outcome' = [kind |-> "skip", byte_order |-> byte_order,
                   new_pos |-> _dbus_marshal_skip_basic_type(data_block.str, wop.type, byte_order, wop.insert_at)]
  /\ UNCHANGED <<data_block, test_nodes, n_written, writers, wop>>
  /\ UNCHANGED <<bus_vars, need_dispatch, loop_vars, ref_vars>>

NextMarshal == MarshalBasic \/ DemarshalMarshalled \/ SkipMarshalled

SpecMarshal == InitMarshal /\ [][NextMarshal]_vars

\* the 32 bit value whose bytes are those of the value in reverse order
ByteReversed4(value) == HostValue4(Reverse(HostOctets4(value)))

ByteReversed8(value) == HostValue8(Reverse(HostOctets8(value)))

\* a value encoded in little endian has been decoded as big endian
DecodedWithFlagSwapped ==
  /\ outcome.kind = "demarshal"
  /\ data_block.byte_order = DBUS_LITTLE_ENDIAN
  /\ outcome.byte_order = DBUS_BIG_ENDIAN

\* C31 as stated: the value decoded with the other byte order equals the
\* value that was encoded.
C31_Original == DecodedWithFlagSwapped => outcome.value = wop.value

\* C31: a value decoded with the byte order it was encoded in equals the
\* original; a value encoded in little endian and decoded as big endian,
\* only the byte order flag being swapped, equals the original when it is a
\* byte, a boolean, a string, an object path or a signature, and is the
\* original with its bytes in reverse order when it is a 32 or 64 bit value.
C31_ByteOrder ==
  outcome.kind = "demarshal" =>
    /\ outcome.byte_order = data_block.byte_order => outcome.value = wop.value
    /\ DecodedWithFlagSwapped =>
         outcome.value = (CASE wop.type \in OctetTypes4 -> ByteReversed4(wop.value)
                            [] wop.type \in OctetTypes8 -> ByteReversed8(wop.value)
                            [] OTHER -> wop.value)

\* 42 encoded in little endian and decoded as big endian is 42 * 2^24
C31_Witness ==
  /\ DecodedWithFlagSwapped
  /\ wop.type = DBUS_TYPE_INT32
  /\ wop.value = 42
  /\ outcome.value = 704643072

\* a value has been decoded or skipped with the byte order of its encoding
SameOrder(kind) == outcome.kind = kind /\ outcome.byte_order = data_block.byte_order

\* C37: for each basic type and each start position, the position after
\* encoding a value, the new position that decoding it reports and the
\* position after skipping it are equal: the start plus 1 byte for byte and
\* boolean, the aligned start plus 4 or 8 bytes for the types of fixed
\* width, the aligned start plus the 4 byte length word and length + 1
\* bytes for string and object path, the start plus length + 2 bytes for
\* signature.
C37_SamePosition ==
  (SameOrder("demarshal") \/ SameOrder("skip")) =>
    /\ outcome.new_pos = wop.pos_after
    /\ wop.pos_after = SmallestAligned(wop.insert_at, TableAlignment(wop.type)) + EncodedLength(wop.type, wop.value)

\* an object path of four bytes encoded at the odd position 5 and skipped:
\* the length word is at 8, the path and its nul end at 17
C37_Witness ==
  /\ SameOrder("skip")
  /\ wop.type = DBUS_TYPE_OBJECT_PATH
  /\ Len(wop.value) = 4
  /\ wop.insert_at = 5
  /\ outcome.new_pos = 17

\* the reader before the i-th call of NextCalls
ReaderBefore(i) == IF i = 1 THEN outcome.reader ELSE outcome.calls[i - 1].reader

\* C36: for a reader over a container with n values, next returns TRUE for
\* each of the first n - 1 calls and FALSE on the n-th; from then on the
\* current type is DBUS_TYPE_INVALID and further calls of next return FALSE
\* and leave the reader where it is (body, struct, array and variant reader).
C36_NextToEnd ==
  outcome.kind = "next" =>
    \A i \in 1..Len(outcome.calls) :
      /\ outcome.calls[i].returned = (i < outcome.n)
      /\ i >= outcome.n => outcome.calls[i].current_type = DBUS_TYPE_INVALID
      /\ i > outcome.n => outcome.calls[i].reader = ReaderBefore(i)

\* the reader of a struct of two values inside another container: the first
\* call returned TRUE, the second FALSE, the third left the reader in place
C36_Witness ==
  /\ outcome.kind = "next"
  /\ outcome.reader.klass = StructReaderClass
  /\ outcome.n = 2
  /\ outcome.calls[1].returned
  /\ ~outcome.calls[2].returned
  /\ outcome.calls[2].reader.finished
  /\ outcome.calls[3].reader = outcome.calls[2].reader
  /\ Len(writers) = 1

\* a message without destination that is not a signal has been dispatched
C34_Case ==
  /\ last.kind = "dispatch"
  /\ last.received.destination = NULL
  /\ last.received.type # DBUS_MESSAGE_TYPE_SIGNAL

\* C34: a message that has no destination and is not a signal is never
\* routed: the dispatch returns not-yet-handled, opens no transaction,
\* stamps no sender, does not disconnect the connection and queues nothing
\* to any connection, whether the sending connection is active or not.
C34_NeverRouted ==
  C34_Case =>
    /\ last.d.result = DBUS_HANDLER_RESULT_NOT_YET_HANDLED
    /\ ~last.d.has_transaction
    /\ last.d.planned = <<>>
    /\ last.d.error = NULL
    /\ last.d.message = last.received
    /\ ~last.d.disconnect
    /\ ~last.d.disconnected
    /\ active[last.connection] = last.was_active
    /\ name[last.connection] = last.was_name
    /\ all_rules = last.pre_rules
    /\ \A c \in Conns : outgoing[c] = last.pre[c]

\* a connection that has not said Hello sent a method call without
\* destination and is still connected
C34_Witness ==
  /\ C34_Case
  /\ ~last.was_active
  /\ last.received.type = DBUS_MESSAGE_TYPE_METHOD_CALL
  /\ last.received.member = "ListNames"
  /\ connected[last.connection]


(* ---------------------------------------------------------------------- *)
(* The entry of bus_dispatch and the end of a dispatch with an error       *)
(* ---------------------------------------------------------------------- *)

\* the verdicts of the policy in SpecEntry: every recipient is let through,
\* or the bus driver or the first connection is refused
EntryVerdicts == {{}, {0}, {1}}

\* the dispatches of SpecEntry start with or without the NoMemory error of
\* the connection, and with or without memory for it at the first attempt
NextEntry ==
  \/ \E c \in Clients : \E message \in ClientMessages(serial[c]) : ClientSend(c, message)
  \/ \E c \in Clients : TransportDisconnect(c)
  \/ LoopTake
  \/ LoopComplete
  \/ \E c \in Conns : \E fail \in FailPoints : \E denied \in EntryVerdicts :
       \E had_oom_message \in BOOLEAN : \E failing \in {0, 1} :
         dbus_connection_dispatch_entered(c, fail, denied, had_oom_message, failing)

SpecEntry == Init /\ [][NextEntry]_vars

\* the most recent dispatch reached its label out with an error
C35_Case == Dispatched /\ last.d.error # NULL

\* the sender was connected when the dispatch reached its label out: it was
\* when the message was popped, and the dispatch has not disconnected it
C35_Connected == ~last.d.disconnect

\* the error messages the most recent dispatch queued to the sender
C35_Errors ==
  {i \in 1..Len(Appended(last.connection)) :
     Appended(last.connection)[i].type = DBUS_MESSAGE_TYPE_ERROR}

\* the sender got one error, error_name in reply to the message it sent, and
\* nothing else
C35_OneError(error_name) ==
  /\ Len(Appended(last.connection)) = 1
  /\ C35_Errors = {1}
  /\ Appended(last.connection)[1].error_name = error_name
  /\ Appended(last.connection)[1].reply_serial = last.received.serial

\* C35: when a dispatch ends with an error the sender gets at most one error
\* reply, and exactly one of these happens: nothing is sent to a sender that
\* is no longer connected; the preallocated NoMemory error is sent when the
\* error is out of memory; a regular error reply goes through the
\* transaction, which is executed; or, when adding that reply fails for lack
\* of memory, the preallocated NoMemory error is sent and the transaction
\* cancelled. The preallocated error exists whenever it is sent: the entry of
\* the dispatch has made sure of it, waiting for memory if it had to.
C35_ErrorOutcome ==
  C35_Case =>
    /\ Cardinality(C35_Errors) <= 1
    /\ IF ~C35_Connected
       THEN Appended(last.connection) = <<>>
       ELSE IF last.d.error = DBUS_ERROR_NO_MEMORY
       THEN /\ C35_OneError(DBUS_ERROR_NO_MEMORY)
            /\ last.d.has_transaction => last.d.cancelled
            /\ last.entry.oom_message
       ELSE IF ~last.d.alloc_failed
       THEN /\ C35_OneError(last.d.error)
            /\ last.d.has_transaction /\ ~last.d.cancelled
       ELSE /\ C35_OneError(DBUS_ERROR_NO_MEMORY)
            /\ last.d.cancelled
            /\ last.entry.oom_message

\* the reply to a call to a name nobody owns could not be added to the
\* transaction; the NoMemory error sent instead was allocated at the entry of
\* the dispatch after a wait for memory
C35_Witness ==
  /\ C35_Case
  /\ C35_Connected
  /\ last.d.error = DBUS_ERROR_SERVICE_DOES_NOT_EXIST
  /\ last.d.alloc_failed
  /\ last.d.cancelled
  /\ last.entry.waits = 1
  /\ C35_OneError(DBUS_ERROR_NO_MEMORY)


(* ---------------------------------------------------------------------- *)
(* A timeout is not called early                                           *)
(* ---------------------------------------------------------------------- *)

\* the timeouts the iteration called: their positions in the list it found
C38_Called ==
  {i \in 1..Len(it.pre) :
     \E k \in 1..Len(it.trace) :
       it.trace[k].kind = "timeout" /\ it.trace[k].id = it.pre[i].id}

\* C38: the function of a timeout is never called before the full interval
\* of the timeout, whole seconds and milliseconds, has elapsed since the
\* timeout was added or last called.  Stated for the first iteration of the
\* loop, in which the time every callback holds is the time it was added,
\* and for the timeouts added before the time the iteration reads.
C38_Original ==
  Iterated /\ it.first =>
    \A i \in C38_Called :
      TimeLeq(<<it.pre[i].last_tv_sec, it.pre[i].last_tv_usec>>, it.tv1)
      => ElapsedUsec(it.pre[i], it.tv2) >= it.pre[i].interval * 1000


(* ---------------------------------------------------------------------- *)
(* dbus-mainloop.c: references, counters and the dispatch FIFO             *)
(*                                                                         *)
(* The loop is followed call by call: _dbus_loop_iterate is a frame that   *)
(* goes through its phases, and the functions of the callbacks and the     *)
(* message handlers are code of the program that runs between two steps of *)
(* a frame and may call the loop again.                                    *)
(* ---------------------------------------------------------------------- *)

N_STACK_DESCRIPTORS == 64

\* number of calls of _dbus_loop_queue_dispatch in one behaviour
MaxEntries == 2

\* number of calls of the program into the loop in one behaviour (adding,
\* removing, queueing, running, quitting)
MaxCalls == 4

\* the connections of the program
RefConns == {1, 2}

\* a Callback as watch_callback_new and timeout_callback_new return it; added
\* tells whether add_callback has put it into the list
NewCallback(type, enabled) ==
  [type |-> type, enabled |-> enabled, refcount |-> 1, free_data_func |-> TRUE,
   free_calls |-> 0, freed |-> FALSE, last_iteration_oom |-> FALSE, added |-> FALSE]

callback_ref(h, id) == [h EXCEPT ![id].refcount = @ + 1]

\* callback_unref that never frees
callback_unref_leaks(h, id) == [h EXCEPT ![id].refcount = @ - 1]

\* callback_unref: the last reference calls the free function, if there is
\* one, and frees the callback
callback_unref(h, id) ==
  IF h[id].refcount = 1
  THEN [h EXCEPT ![id].refcount = 0,
                 ![id].free_calls = IF h[id].free_data_func THEN @ + 1 ELSE @,
                 ![id].freed = TRUE]
  ELSE [h EXCEPT ![id].refcount = @ - 1]

\* add_callback that leaves the counters alone
AddCallback_uncounted(loop, type, id, oom) ==
  IF oom THEN [ok |-> FALSE, loop |-> loop]
  ELSE [ok |-> TRUE,
        loop |-> [loop EXCEPT !.callbacks = Append(@, id),
                              !.callback_list_serial = @ + 1]]

\* add_callback with its counters: FALSE and no change when
\* _dbus_list_append has no memory
AddCallback(loop, type, id, oom) ==
  IF oom THEN [ok |-> FALSE, loop |-> loop]
  ELSE [ok |-> TRUE,
        loop |-> [loop EXCEPT !.callbacks = Append(@, id),
                              !.callback_list_serial = @ + 1,
                              !.watch_count = IF type = CALLBACK_WATCH THEN @ + 1 ELSE @,
                              !.timeout_count = IF type = CALLBACK_TIMEOUT THEN @ + 1 ELSE @]]

\* remove_callback with its counters; the reference of the list is dropped
RemoveCallback(loop, h, link) ==
  [loop |-> [loop EXCEPT
               !.watch_count = IF h[loop.callbacks[link]].type = CALLBACK_WATCH
                               THEN @ - 1 ELSE @,
               !.timeout_count = IF h[loop.callbacks[link]].type = CALLBACK_TIMEOUT
                                 THEN @ - 1 ELSE @,
               !.callbacks = SubSeq(@, 1, link - 1) \o SubSeq(@, link + 1, Len(@)),
               !.callback_list_serial = @ + 1],
   heap |-> callback_unref(h, loop.callbacks[link])]

\* _dbus_loop_add_watch and _dbus_loop_add_timeout: oom names the allocation
\* that fails, "none" when none does.  A callback that cannot be put into the
\* list is freed without its free function.
LoopAdd(loop, h, type, enabled, oom) ==
  IF oom = "callback_new" THEN [ok |-> FALSE, loop |-> loop, heap |-> h]
  ELSE The({IF a.ok
            THEN [ok |-> TRUE, loop |-> a.loop,
                  heap |-> Append(h, [NewCallback(type, enabled) EXCEPT !.added = TRUE])]
            ELSE [ok |-> FALSE, loop |-> a.loop,
                  heap |-> callback_unref(
                             Append(h, [NewCallback(type, enabled)
                                          EXCEPT !.free_data_func = FALSE]),
                             Len(h) + 1)] :
              a \in {AddCallback(loop, type, Len(h) + 1, oom = "add_callback")}})

\* position in the list of the callback with that identity, 0 when it is not
\* there
LinkOf(loop, id) ==
  IF \E i \in 1..Len(loop.callbacks) : loop.callbacks[i] = id
  THEN CHOOSE i \in 1..Len(loop.callbacks) : loop.callbacks[i] = id
  ELSE 0

\* _dbus_loop_queue_dispatch that takes its reference whether or not the
\* connection was appended
LoopQueueDispatch_always_refs(loop, c, connection, entry, oom) ==
  IF oom
  THEN [ok |-> FALSE, loop |-> loop,
        conn |-> [c EXCEPT ![connection].refcount = @ + 1]]
  ELSE [ok |-> TRUE,
        loop |-> [loop EXCEPT !.need_dispatch =
                    Append(@, [connection |-> connection, entry |-> entry])],
        conn |-> [c EXCEPT ![connection].refcount = @ + 1]]

\* _dbus_loop_queue_dispatch: the connection is appended to the FIFO and
\* referenced; FALSE and nothing done when the list has no memory.  entry
\* numbers the calls, it is not in the list of the code.
LoopQueueDispatch(loop, c, connection, entry, oom) ==
  IF oom THEN [ok |-> FALSE, loop |-> loop, conn |-> c]
  ELSE [ok |-> TRUE,
        loop |-> [loop EXCEPT !.need_dispatch =
                    Append(@, [connection |-> connection, entry |-> entry])],
        conn |-> [c EXCEPT ![connection].refcount = @ + 1]]

\* the loop as _dbus_loop_new returns it, after n disabled watches have been
\* added to it by parts of the program that do nothing more
RefsNew(n) ==
  /\ dbus_loop = [refcount |-> 1, freed |-> FALSE,
                  callbacks |-> [i \in 1..n |-> i], callback_list_serial |-> n,
                  watch_count |-> n, timeout_count |-> 0, depth |-> 0,
                  need_dispatch |-> <<>>]
  /\ heap = [i \in 1..n |-> [NewCallback(CALLBACK_WATCH, FALSE) EXCEPT !.added = TRUE]]
  /\ conn = [c \in RefConns |-> [refcount |-> 1, pending |-> 0]]
  /\ frames = <<>>
  /\ hist = [base |-> n, entries |-> <<>>, calls |-> 0]

InitRefs ==
  /\ InitBus(0, <<>>)
  /\ NoBlock
  /\ \E n \in {0, N_STACK_DESCRIPTORS} : RefsNew(n)

\* the innermost call in progress
Top == frames[Len(frames)]

\* code of the program runs: no call of the loop is in progress, or the
\* innermost one has called the function of a callback or a message handler
InUserCode ==
  /\ ~dbus_loop.freed
  /\ IF frames = <<>> THEN TRUE ELSE Top.pc \in {"in_callback", "in_handler"}

\* the frames with the innermost replaced
WithTop(f) == [frames EXCEPT ![Len(frames)] = f]

\* the program may call the loop once more
MayCall == InUserCode /\ hist.calls < MaxCalls

RefUnchanged == UNCHANGED <<bus_vars, need_dispatch, loop_vars, codec_vars>>

\* _dbus_loop_add_watch, _dbus_loop_add_timeout
RefAdd(type, enabled, oom) ==
  /\ MayCall
  /\ Len(heap) - hist.base < MaxCallbacks
  /\ \E r \in {LoopAdd(dbus_loop, heap, type, enabled, oom)} :
       /\ dbus_loop' = r.loop
       /\ heap' = r.heap
  /\ hist' = [hist EXCEPT !.calls = @ + 1]
  /\ UNCHANGED <<conn, frames>>
  /\ RefUnchanged

\* _dbus_loop_remove_watch, _dbus_loop_remove_timeout of a callback the
\* program has added
RefRemove(id) ==
  /\ MayCall
  /\ id > hist.base
  /\ LinkOf(dbus_loop, id) # 0
  /\ \E r \in {RemoveCallback(dbus_loop, heap, LinkOf(dbus_loop, id))} :
       /\ dbus_loop' = r.loop
       /\ heap' = r.heap
  /\ hist' = [hist EXCEPT !.calls = @ + 1]
  /\ UNCHANGED <<conn, frames>>
  /\ RefUnchanged

\* a message has come for the connection, which is queued for dispatch
RefQueueDispatch(connection, oom) ==
  /\ MayCall
  /\ Len(hist.entries) < MaxEntries
  /\ \E r \in {LoopQueueDispatch(dbus_loop,
                                 [conn EXCEPT ![connection].pending = @ + 1],
                                 connection, Len(hist.entries) + 1, oom)} :
       /\ dbus_loop' = r.loop
       /\ conn' = r.conn
       /\ hist' = [hist EXCEPT
                     !.calls = @ + 1,
                     !.entries = IF r.ok
                                 THEN Append(@, [connection |-> connection,
                                                 state |-> "queued", released |-> 0,
                                                 complete |-> FALSE])
                                 ELSE @]
  /\ UNCHANGED <<heap, frames>>
  /\ RefUnchanged

\* the runs in progress
RunFrames == {i \in 1..Len(frames) : frames[i].kind = "run"}

\* _dbus_loop_run is entered by the function of a callback or by a message
\* handler
RefRun ==
  /\ MayCall
  /\ frames # <<>>
  /\ Cardinality(RunFrames) + 1 < MaxRuns
  /\ dbus_loop.depth >= 0
  /\ frames' = Append(frames, [kind |-> "run", pc |-> "loop",
                               our_exit_depth |-> dbus_loop.depth])
  /\ dbus_loop' = [dbus_loop EXCEPT !.refcount = @ + 1, !.depth = @ + 1]
  /\ hist' = [hist EXCEPT !.calls = @ + 1]
  /\ UNCHANGED <<heap, conn>>
  /\ RefUnchanged

\* _dbus_loop_run finds the depth it waits for, drops its reference and returns
RefRunReturn ==
  /\ frames # <<>>
  /\ Top.kind = "run"
  /\ dbus_loop.depth = Top.our_exit_depth
  /\ frames' = SubSeq(frames, 1, Len(frames) - 1)
  /\ dbus_loop' = [dbus_loop EXCEPT !.refcount = @ - 1]
  /\ UNCHANGED <<hist, heap, conn>>
  /\ RefUnchanged

\* _dbus_loop_quit
RefQuit ==
  /\ MayCall
  /\ frames # <<>>
  /\ dbus_loop.depth > 0
  /\ dbus_loop' = [dbus_loop EXCEPT !.depth = @ - 1]
  /\ hist' = [hist EXCEPT !.calls = @ + 1]
  /\ UNCHANGED <<heap, conn, frames>>
  /\ RefUnchanged

RECURSIVE FillVectors_no_ref(_, _, _)
\* FillVectors without callback_ref
FillVectors_no_ref(list, acc, i) ==
  IF i > Len(list) THEN acc
  ELSE IF acc.heap[list[i]].type = CALLBACK_WATCH /\ acc.heap[list[i]].last_iteration_oom
  THEN FillVectors_no_ref(list, [acc EXCEPT !.heap[list[i]].last_iteration_oom = FALSE], i + 1)
  ELSE IF acc.heap[list[i]].type = CALLBACK_WATCH /\ acc.heap[list[i]].enabled
  THEN FillVectors_no_ref(list, [acc EXCEPT !.watches_for_fds = Append(@, list[i])], i + 1)
  ELSE FillVectors_no_ref(list, acc, i + 1)

RECURSIVE FillVectors(_, _, _)
\* lines 546-607: every enabled watch of the list that was not out of memory
\* the last time goes into watches_for_fds and is referenced
FillVectors(list, acc, i) ==
  IF i > Len(list) THEN acc
  ELSE IF acc.heap[list[i]].type = CALLBACK_WATCH /\ acc.heap[list[i]].last_iteration_oom
  THEN FillVectors(list, [acc EXCEPT !.heap[list[i]].last_iteration_oom = FALSE], i + 1)
  ELSE IF acc.heap[list[i]].type = CALLBACK_WATCH /\ acc.heap[list[i]].enabled
  THEN FillVectors(list, [acc EXCEPT !.watches_for_fds = Append(@, list[i]),
                                     !.heap = callback_ref(@, list[i])], i + 1)
  ELSE FillVectors(list, acc, i + 1)

\* lines 520-544: the room of the two vectors, on the stack or allocated
VectorCapacity(loop) ==
  IF loop.watch_count > N_STACK_DESCRIPTORS THEN loop.watch_count ELSE N_STACK_DESCRIPTORS

\* _dbus_loop_iterate is called, by the innermost run or by the program: the
\* vectors are filled and _dbus_poll reports events for the watches of ready
RefIterateBegin ==
  /\ ~dbus_loop.freed
  /\ IF frames = <<>> THEN TRUE
     ELSE Top.kind = "run" /\ dbus_loop.depth # Top.our_exit_depth
  /\ \E fill \in {IF dbus_loop.callbacks = <<>>
                  THEN [heap |-> heap, watches_for_fds |-> <<>>]
                  ELSE FillVectors(dbus_loop.callbacks,
                                   [heap |-> heap, watches_for_fds |-> <<>>], 1)} :
       \E ready \in {{}, Range(fill.watches_for_fds)} :
         /\ heap' = fill.heap
         /\ frames' = Append(frames,
              [kind |-> "iterate",
               pc |-> IF dbus_loop.callbacks = <<>> THEN "next_iteration"
                      ELSE IF dbus_loop.timeout_count > 0 THEN "timeouts"
                      ELSE IF ready # {} THEN "watches"
                      ELSE "next_iteration",
               watches_for_fds |-> fill.watches_for_fds,
               capacity |-> VectorCapacity(dbus_loop),
               ready |-> ready, i |-> 1,
               initial_serial |-> dbus_loop.callback_list_serial,
               orig_depth |-> dbus_loop.depth,
               called |-> 0, back |-> "none", entry |-> 0])
  /\ UNCHANGED <<hist, dbus_loop, conn>>
  /\ RefUnchanged

\* the list or the depth is not what it was when the callbacks began
RefRestart ==
  \/ dbus_loop.callback_list_serial # Top.initial_serial
  \/ dbus_loop.depth # Top.orig_depth

\* the links from i on that hold an enabled timeout
EnabledTimeoutLinks(i) ==
  {k \in i..Len(dbus_loop.callbacks) :
     /\ heap[dbus_loop.callbacks[k]].type = CALLBACK_TIMEOUT
     /\ heap[dbus_loop.callbacks[k]].enabled}

\* lines 677-714, up to the next call: the loop over the list ends at once
\* when the list or the depth has changed; the function of an enabled timeout
\* that check_timeout reports is called, the links between being passed
RefTimeouts ==
  /\ frames # <<>>
  /\ Top.pc = "timeouts"
  /\ IF Top.i <= Len(dbus_loop.callbacks) /\ RefRestart
     THEN frames' = WithTop([Top EXCEPT !.pc = "next_iteration"])
     ELSE \E k \in EnabledTimeoutLinks(Top.i) \cup {Len(dbus_loop.callbacks) + 1} :
            frames' = WithTop(
              IF k <= Len(dbus_loop.callbacks)
              THEN [Top EXCEPT !.pc = "in_callback", !.back = "timeouts",
                               !.called = dbus_loop.callbacks[k], !.i = k + 1]
              ELSE [Top EXCEPT !.pc = IF Top.ready # {} THEN "watches"
                                      ELSE "next_iteration",
                               !.i = 1])
  /\ UNCHANGED <<hist, dbus_loop, heap, conn>>
  /\ RefUnchanged

\* the entries of the vectors from i on whose watch is ready and enabled
ReadyEntries(i) ==
  {k \in i..Len(Top.watches_for_fds) :
     /\ Top.watches_for_fds[k] \in Top.ready
     /\ heap[Top.watches_for_fds[k]].enabled}

\* lines 719-771, up to the next call: the loop over the vectors ends at once
\* when the list or the depth has changed; the function of the next watch
\* that is ready and enabled is called
RefWatches ==
  /\ frames # <<>>
  /\ Top.pc = "watches"
  /\ frames' = WithTop(
       IF Top.i <= Len(Top.watches_for_fds) /\ RefRestart
       THEN [Top EXCEPT !.pc = "next_iteration"]
       ELSE IF ReadyEntries(Top.i) = {}
       THEN [Top EXCEPT !.pc = "next_iteration"]
       ELSE The({[Top EXCEPT !.pc = "in_callback", !.back = "watches",
                             !.called = Top.watches_for_fds[k], !.i = k + 1] :
                   k \in {Smallest(ReadyEntries(Top.i))}}))
  /\ UNCHANGED <<hist, dbus_loop, heap, conn>>
  /\ RefUnchanged

\* the function of the callback returns; a watch function that returns FALSE
\* has last_iteration_oom set in its callback
RefCallbackReturn(result) ==
  /\ frames # <<>>
  /\ Top.pc = "in_callback"
  /\ Top.back = "timeouts" => result
  /\ heap' = IF result THEN heap
             ELSE [heap EXCEPT ![Top.called].last_iteration_oom = TRUE]
  /\ frames' = WithTop([Top EXCEPT !.pc = Top.back, !.called = 0, !.back = "none"])
  /\ UNCHANGED <<hist, dbus_loop, conn>>
  /\ RefUnchanged

RECURSIVE UnrefAll(_, _, _)
\* callback_unref of the entries of the vector from i on
UnrefAll(h, watches, i) ==
  IF i > Len(watches) THEN h
  ELSE UnrefAll(callback_unref(h, watches[i]), watches, i + 1)

\* the label next_iteration: the references of the vector are dropped, then
\* _dbus_loop_dispatch is called
RefNextIteration ==
  /\ frames # <<>>
  /\ Top.pc = "next_iteration"
  /\ heap' = UnrefAll(heap, Top.watches_for_fds, 1)
  /\ frames' = WithTop([Top EXCEPT !.pc = "dispatch", !.watches_for_fds = <<>>])
  /\ UNCHANGED <<hist, dbus_loop, conn>>
  /\ RefUnchanged

\* _dbus_loop_dispatch that takes the last connection of the FIFO
DispatchPop_last(queue) ==
  [first |-> queue[Len(queue)], rest |-> SubSeq(queue, 1, Len(queue) - 1)]

\* _dbus_list_pop_first (&loop->need_dispatch)
DispatchPop(queue) == [first |-> Head(queue), rest |-> Tail(queue)]

\* _dbus_loop_dispatch at its label next: the first connection of the FIFO is
\* taken, or the FIFO is empty and _dbus_loop_iterate returns
RefDispatchTake ==
  /\ frames # <<>>
  /\ Top.pc = "dispatch"
  /\ IF dbus_loop.need_dispatch = <<>>
     THEN /\ frames' = SubSeq(frames, 1, Len(frames) - 1)
          /\ UNCHANGED <<dbus_loop, hist>>
     ELSE \E p \in {DispatchPop(dbus_loop.need_dispatch)} :
          /\ frames' = WithTop([Top EXCEPT !.pc = "dispatching", !.entry = p.first.entry])
          /\ dbus_loop' = [dbus_loop EXCEPT !.need_dispatch = p.rest]
          /\ hist' = [hist EXCEPT !.entries[p.first.entry].state = "taken"]
  /\ UNCHANGED <<heap, conn>>
  /\ RefUnchanged

DBUS_DISPATCH_DATA_REMAINS == "DBUS_DISPATCH_DATA_REMAINS"
DBUS_DISPATCH_COMPLETE == "DBUS_DISPATCH_COMPLETE"
DBUS_DISPATCH_NEED_MEMORY == "DBUS_DISPATCH_NEED_MEMORY"

\* the status dbus_connection_dispatch returns when pending messages wait
dbus_connection_get_dispatch_status(pending) ==
  IF pending > 0 THEN DBUS_DISPATCH_DATA_REMAINS ELSE DBUS_DISPATCH_COMPLETE

\* what _dbus_loop_dispatch does with a status that lets go of the
\* connection whatever the status is
AfterDispatch_one_call(status) == "unref"

\* what _dbus_loop_dispatch does with the status of dbus_connection_dispatch:
\* the connection is let go when the status is complete, and dispatched again
\* otherwise
AfterDispatch(status) ==
  IF status = DBUS_DISPATCH_COMPLETE THEN "unref" ELSE "again"

\* the connection of the entry is let go, or dispatched once more
RefAfterDispatch(status) ==
  IF AfterDispatch(status) = "unref"
  THEN /\ conn' = [conn EXCEPT ![hist.entries[Top.entry].connection].refcount = @ - 1]
       /\ frames' = WithTop([Top EXCEPT !.pc = "dispatch", !.entry = 0])
       /\ hist' = [hist EXCEPT !.entries[Top.entry].state = "released",
                               !.entries[Top.entry].released = @ + 1,
                               !.entries[Top.entry].complete =
                                  status = DBUS_DISPATCH_COMPLETE]
  ELSE /\ frames' = WithTop([Top EXCEPT !.pc = "dispatching"])
       /\ UNCHANGED <<conn, hist>>

\* dbus_connection_dispatch of the connection taken: it has nothing to
\* dispatch, or no memory, or it hands a message to its handler
RefDispatchCall(oom) ==
  /\ frames # <<>>
  /\ Top.pc = "dispatching"
  /\ \E c \in {hist.entries[Top.entry].connection} :
       IF conn[c].pending = 0
       THEN RefAfterDispatch(DBUS_DISPATCH_COMPLETE)
       ELSE IF oom
       THEN RefAfterDispatch(DBUS_DISPATCH_NEED_MEMORY)
       ELSE /\ conn' = [conn EXCEPT ![c].pending = @ - 1]
            /\ frames' = WithTop([Top EXCEPT !.pc = "in_handler"])
            /\ UNCHANGED hist
  /\ UNCHANGED <<dbus_loop, heap>>
  /\ RefUnchanged

\* the handler returns and dbus_connection_dispatch with it
RefHandlerReturn ==
  /\ frames # <<>>
  /\ Top.pc = "in_handler"
  /\ RefAfterDispatch(dbus_connection_get_dispatch_status(
                        conn[hist.entries[Top.entry].connection].pending))
  /\ UNCHANGED <<dbus_loop, heap>>
  /\ RefUnchanged

RECURSIVE UnrefQueued(_, _)
\* dbus_connection_unref of every connection of the queue
UnrefQueued(c, queue) ==
  IF queue = <<>> THEN c
  ELSE UnrefQueued([c EXCEPT ![Head(queue).connection].refcount = @ - 1], Tail(queue))

\* the program drops its reference with _dbus_loop_unref: the loop lets go of
\* the connections that are still queued and is freed
RefLoopUnref ==
  /\ ~dbus_loop.freed
  /\ frames = <<>>
  /\ dbus_loop.refcount = 1
  /\ conn' = UnrefQueued(conn, dbus_loop.need_dispatch)
  /\ hist' = [hist EXCEPT
                !.entries = [n \in 1..Len(@) |->
                               IF \E k \in 1..Len(dbus_loop.need_dispatch) :
                                    dbus_loop.need_dispatch[k].entry = n
                               THEN [@[n] EXCEPT !.state = "released",
                                                 !.released = @ + 1]
                               ELSE @[n]]]
  /\ dbus_loop' = [dbus_loop EXCEPT !.refcount = 0, !.freed = TRUE,
                                    !.need_dispatch = <<>>]
  /\ UNCHANGED <<heap, frames>>
  /\ RefUnchanged

\* the allocations of an add that may fail
AddFailures == {"none", "callback_new", "add_callback"}

NextRefs ==
  \/ \E type \in {CALLBACK_WATCH, CALLBACK_TIMEOUT} : \E oom \in AddFailures :
       RefAdd(type, TRUE, oom)
  \/ \E id \in 1..Len(heap) : RefRemove(id)
  \/ \E connection \in RefConns : \E oom \in BOOLEAN : RefQueueDispatch(connection, oom)
  \/ RefRun
  \/ RefRunReturn
  \/ RefQuit
  \/ RefIterateBegin
  \/ RefTimeouts
  \/ RefWatches
  \/ \E result \in BOOLEAN : RefCallbackReturn(result)
  \/ RefNextIteration
  \/ RefDispatchTake
  \/ \E oom \in BOOLEAN : RefDispatchCall(oom)
  \/ RefHandlerReturn
  \/ RefLoopUnref

SpecRefs == InitRefs /\ [][NextRefs]_vars


(* ---------------------------------------------------------------------- *)
(* Properties of the references, the counters and the dispatch FIFO        *)
(* ---------------------------------------------------------------------- *)

\* the calls of _dbus_loop_iterate in progress
IterateFrames == {i \in 1..Len(frames) : frames[i].kind = "iterate"}

\* the callbacks of the list that have the type
Listed(type) ==
  {i \in 1..Len(dbus_loop.callbacks) : heap[dbus_loop.callbacks[i]].type = type}

\* the counters are the numbers of callbacks of the list, and no vector of an
\* iteration holds more entries than it has room for
C39_Counts ==
  /\ dbus_loop.watch_count = Cardinality(Listed(CALLBACK_WATCH))
  /\ dbus_loop.timeout_count = Cardinality(Listed(CALLBACK_TIMEOUT))
  /\ \A i \in IterateFrames : Len(frames[i].watches_for_fds) <= frames[i].capacity

\* a step that changes the list changes the serial, and a step that leaves
\* the list as it is (a failed add among them) leaves the serial and the
\* counters as they are
C39_Step ==
  IF dbus_loop'.callbacks # dbus_loop.callbacks
  THEN dbus_loop'.callback_list_serial # dbus_loop.callback_list_serial
  ELSE /\ dbus_loop'.callback_list_serial = dbus_loop.callback_list_serial
       /\ dbus_loop'.watch_count = dbus_loop.watch_count
       /\ dbus_loop'.timeout_count = dbus_loop.timeout_count

\* C39: in every state of the loop watch_count and timeout_count are the
\* numbers of watch and timeout callbacks of the list, so that the vectors an
\* iteration fills never hold more entries than their capacity
\* (N_STACK_DESCRIPTORS on the stack, watch_count when that is larger); the
\* serial of the list changes with every successful add or remove and with
\* nothing else, and an add that fails for lack of memory changes neither the
\* list, the counters nor the serial.
C39_Counters == []C39_Counts /\ [][C39_Step]_vars

\* an iteration whose vectors were allocated for 65 watches polls the one
\* watch that is enabled, after an add has failed in add_callback
C39_Witness ==
  /\ dbus_loop.watch_count = N_STACK_DESCRIPTORS + 1
  /\ \E i \in IterateFrames :
       /\ frames[i].capacity = N_STACK_DESCRIPTORS + 1
       /\ Len(frames[i].watches_for_fds) = 1
  /\ \E id \in 1..Len(heap) : ~heap[id].added

\* the iterations in progress that have callback id in their vector
Holding(id) ==
  {i \in IterateFrames : \E k \in 1..Len(frames[i].watches_for_fds) :
                           frames[i].watches_for_fds[k] = id}

\* C40: a watch callback that is in the vector of an iteration in progress is
\* not freed before that iteration drops its vector, even when a callback
\* removes it from the loop during the iteration; the free function of a
\* callback that was added is called once, when the callback has been removed
\* and every iteration that held it has dropped its vector, and not before;
\* it is never called for an add that failed.
C40_Freed ==
  \A id \in 1..Len(heap) :
    /\ Holding(id) # {} => ~heap[id].freed
    /\ heap[id].free_calls <= 1
    /\ heap[id].added =>
         /\ heap[id].free_calls = 1 <=> (LinkOf(dbus_loop, id) = 0 /\ Holding(id) = {})
         /\ heap[id].freed <=> heap[id].free_calls = 1
    /\ ~heap[id].added => heap[id].free_calls = 0 /\ heap[id].freed

\* a watch that two nested iterations hold has been removed by the function
\* of a callback and is not freed
C40_Witness ==
  \E id \in 1..Len(heap) :
    /\ heap[id].added
    /\ LinkOf(dbus_loop, id) = 0
    /\ Cardinality(Holding(id)) = 2
    /\ heap[id].refcount = 2
    /\ ~heap[id].freed

\* the entries of the FIFO that the loop holds a reference for
HeldEntries(c) ==
  {n \in 1..Len(hist.entries) :
     /\ hist.entries[n].connection = c
     /\ hist.entries[n].state \in {"queued", "taken"}}

\* C33: the dispatch queue holds one reference of the connection for every
\* entry: a queue-dispatch that succeeds takes one, one that fails takes
\* none, and every reference is released once, after the dispatch of its
\* entry was complete or when the last reference of the loop is dropped.
C33_References ==
  /\ \A c \in RefConns : conn[c].refcount = 1 + Cardinality(HeldEntries(c))
  /\ Len(dbus_loop.need_dispatch)
       = Cardinality({n \in 1..Len(hist.entries) : hist.entries[n].state = "queued"})
  /\ \A k \in 1..Len(dbus_loop.need_dispatch) :
       /\ hist.entries[dbus_loop.need_dispatch[k].entry].state = "queued"
       /\ hist.entries[dbus_loop.need_dispatch[k].entry].connection
            = dbus_loop.need_dispatch[k].connection
  /\ \A n \in 1..Len(hist.entries) :
       /\ hist.entries[n].released <= 1
       /\ hist.entries[n].released = 1 <=> hist.entries[n].state = "released"
       /\ hist.entries[n].state = "released" =>
            hist.entries[n].complete \/ dbus_loop.freed

\* one reference was released after the dispatch of its entry, another when
\* the loop was freed, and a queue-dispatch has failed
C33_Witness ==
  /\ dbus_loop.freed
  /\ Len(hist.entries) = 2
  /\ hist.entries[1].state = "released" /\ hist.entries[1].complete
  /\ hist.entries[2].state = "released" /\ ~hist.entries[2].complete
  /\ hist.calls = 3
  /\ \A c \in RefConns : conn[c].refcount = 1

\* the entries a call of _dbus_loop_dispatch has taken and not let go
TakenEntries == {n \in 1..Len(hist.entries) : hist.entries[n].state = "taken"}

\* the entries are taken in the order of the calls of queue-dispatch, and let
\* go by the dispatch only when the status was complete
C32_InOrder ==
  \A n \in 1..Len(hist.entries) :
    /\ \A m \in 1..(n - 1) :
         hist.entries[n].state # "queued" => hist.entries[m].state # "queued"
    /\ (hist.entries[n].state = "released" /\ ~dbus_loop.freed)
         => hist.entries[n].complete

\* _dbus_loop_iterate returns with the queue empty
C32_Return ==
  (/\ frames # <<>>
   /\ Top.kind = "iterate"
   /\ Len(frames') < Len(frames))
  => dbus_loop'.need_dispatch = <<>>

\* C32 as stated: no connection is taken before the dispatch of the one
\* taken before it is complete.
C32_Original ==
  /\ [](C32_InOrder /\ Cardinality(TakenEntries) <= 1)
  /\ [][C32_Return]_vars

\* C32: iterate ends by draining the dispatch FIFO: the connections are taken
\* in the order of their queue-dispatch calls (a connection queued twice is
\* taken twice), each one is dispatched again and again until its status is
\* complete before the same call of iterate takes the next, and the queue is
\* empty when iterate returns.  An iterate that a message handler has entered
\* by running the loop takes the connections that follow while the
\* connection of the handler is still being dispatched: the entries taken
\* and not let go are those of the calls in progress, one for each, the later
\* entry in the inner call.
C32_Drain ==
  /\ [](/\ C32_InOrder
        /\ TakenEntries = {frames[i].entry : i \in {j \in IterateFrames :
                                                     frames[j].entry # 0}}
        /\ \A i, j \in IterateFrames :
             (i < j /\ frames[i].entry # 0 /\ frames[j].entry # 0)
             => /\ frames[i].entry < frames[j].entry
                /\ frames[i].pc = "in_handler")
  /\ [][C32_Return]_vars

\* a connection was queued twice and taken twice, each dispatch went on to
\* the status complete, and iterate has returned with the queue empty
C32_Witness ==
  /\ frames = <<>>
  /\ ~dbus_loop.freed
  /\ Len(hist.entries) = 2
  /\ hist.entries[1].connection = hist.entries[2].connection
  /\ \A n \in 1..2 : hist.entries[n].state = "released" /\ hist.entries[n].complete
  /\ dbus_loop.need_dispatch = <<>>

====
